---------------------------- MODULE Spec2Model ----------------------------
(***************************************************************************)
(* SqlToMirConverter (src/src/controller/sql/mir/mod.rs): the versioned    *)
(* node store (schema_version, current, nodes, base_schemas) and the       *)
(* driver operations that lower CREATE TABLE and SELECT into MIR nodes.    *)
(*                                                                         *)
(* MIR nodes are shared, mutable cells (Rc<RefCell<MirNode>>): the model   *)
(* keeps them in `arena`, a sequence of node records; a MirNodeRef is an   *)
(* index into it.  Option<T> of a structured T is a sequence of length 0   *)
(* or 1; Option<String> is a string, NoneStr standing for None.  A panic   *)
(* ends the run: no operation follows a call whose result is "panic".      *)
(***************************************************************************)
EXTENDS Integers, Sequences, FiniteSets, TLC

VARIABLES
    schema_version,  \* usize
    current,         \* HashMap<String, usize>: a function on the names present
    nodes,           \* HashMap<(String, usize), MirNodeRef>
    base_schemas,    \* HashMap<String, Vec<(usize, Vec<ColumnSpecification>)>>
    arena,           \* the MirNode cells allocated so far
    queries,         \* the MirQuery values returned to the driver so far
    last,            \* the last call: operation, arguments, outcome
    calls            \* number of calls made

vars == <<schema_version, current, nodes, base_schemas, arena, queries, last, calls>>

store == <<schema_version, current, nodes, base_schemas>>

----------------------------------------------------------------------------
(* Bounds of the model *)

MaxCalls == 3

MaxBaseCalls == 4

MaxVersion == 2

\* number of driver calls in a behaviour of SpecQuery
MaxQueryCalls == 3

----------------------------------------------------------------------------
(* Values *)

NoneStr == "<none>"

Column(table, name) ==
    [name |-> name, table |-> table, alias |-> NoneStr, function |-> NoneStr]

ColumnSpecification(c, ty) == [column |-> c, sql_type |-> ty]

TableKey(kind, cols) == [kind |-> kind, columns |-> cols]

\* index 0 names no node: the arena is indexed from 1
NoNode == Len(<<>>)

Contains(s, x) == \E i \in 1..Len(s) : s[i] = x

\* Iterator::position: index of the first element equal to x, 0 for None
Position(s, x) ==
    IF Contains(s, x) THEN CHOOSE i \in 1..Len(s) :
                               s[i] = x /\ \A j \in 1..(i-1) : s[j] # x
    ELSE 0

\* Vec::remove(pos)
RemoveAt(s, i) == SubSeq(s, 1, i-1) \o SubSeq(s, i+1, Len(s))

\* HashMap::insert
MapInsert(m, k, v) == [x \in DOMAIN m \cup {k} |-> IF x = k THEN v ELSE m[x]]

EmptyMap == [x \in {} |-> 0]

Columns(specs) == [i \in 1..Len(specs) |-> specs[i].column]

----------------------------------------------------------------------------
(* mir::node::MirNode (crate `mir`, not part of src/) *)

MirNode(name, v, columns, inner, ancestors, children) ==
    [name |-> name, from_version |-> v, columns |-> columns, inner |-> inner,
     ancestors |-> ancestors, children |-> children]

\* add_child on every ancestor, once per occurrence in `ancestors`
RECURSIVE AddChild(_, _, _)
AddChild(a, ancestors, id) ==
    IF ancestors = <<>> THEN a
    ELSE LET p == Head(ancestors)
             a1 == [a EXCEPT ![p].children = Append(@, id)]
         IN AddChild(a1, Tail(ancestors), id)

\* MirNode::new: allocates the node and registers it as a child of each ancestor.
\* The new node's reference is Len(a) + 1.
MirNodeNew(a, name, v, columns, inner, ancestors, children) ==
    AddChild(Append(a, MirNode(name, v, columns, inner, ancestors, children)),
             ancestors, Len(a) + 1)

\* MirNode::reuse: a Reuse wrapper with the target's name and columns
MirNodeReuse(a, node, v) ==
    Append(a, MirNode(a[node].name, v, a[node].columns,
                      [kind |-> "Reuse", node |-> node], <<>>, <<>>))

BaseInner(column_specs, keys, transactional, adapted_over) ==
    [kind |-> "Base", column_specs |-> column_specs, keys |-> keys,
     transactional |-> transactional, adapted_over |-> adapted_over]

\* MirNode::adapt_base: the prior Base's column specifications without the
\* removed ones, followed by the added ones; keeps the prior node's name,
\* version, keys and children.
MirNodeAdaptBase(a, node, columns_added, columns_removed) ==
    LET over == a[node]
        kept == SelectSeq(over.inner.column_specs,
                          LAMBDA cs : ~Contains(columns_removed, cs))
        new_specs == kept \o columns_added
    IN MirNodeNew(a, over.name, over.from_version, Columns(new_specs),
                  BaseInner(new_specs, over.inner.keys, over.inner.transactional,
                            <<[over |-> node, columns_added |-> columns_added,
                               columns_removed |-> columns_removed]>>),
                  <<>>, over.children)

\* MirQuery::singleton
MirQuerySingleton(name, n) == [name |-> name, roots |-> <<n>>, leaf |-> n]

----------------------------------------------------------------------------
(* make_base_node *)

\* Vec::sort_by_key (stable) on the schema version, as an insertion sort
RECURSIVE SortByKey(_)
SortByKey(s) ==
    IF s = <<>> THEN <<>>
    ELSE LET init == SortByKey(SubSeq(s, 1, Len(s) - 1))
             e == s[Len(s)]
             le == SelectSeq(init, LAMBDA x : x[1] <= e[1])
             gt == SelectSeq(init, LAMBDA x : x[1] > e[1])
         IN le \o <<e>> \o gt

Reverse(s) == [i \in 1..Len(s) |-> s[Len(s) + 1 - i]]

\* the sort of line 417 without the reversal of line 419: oldest first
ExistingSchemas_OldestFirst(bs, name) == SortByKey(bs[name])

\* lines 415-419: the recorded schemas, newest first
ExistingSchemas(bs, name) == Reverse(SortByKey(bs[name]))

\* lines 448-458: requested columns that the schema lacks, in input order
ColumnsAdded(schema, cols) == SelectSeq(cols, LAMBDA c : ~Contains(schema, c))

ColumnsUnchanged(schema, cols) == SelectSeq(cols, LAMBDA c : Contains(schema, c))

\* lines 459-464: schema columns that the request lacks
ColumnsRemoved(schema, cols) == SelectSeq(schema, LAMBDA c : ~Contains(cols, c))

\* the test of lines 466-467 without its second conjunct
IsSimpleChange_AnyShared(schema, cols) == Len(ColumnsUnchanged(schema, cols)) > 0

\* lines 466-467
IsSimpleChange(schema, cols) ==
    /\ Len(ColumnsUnchanged(schema, cols)) > 0
    /\ (Len(ColumnsAdded(schema, cols)) > 0 \/ Len(ColumnsRemoved(schema, cols)) > 0)

\* lines 488-497: remove each dropped column at its first position;
\* <<FALSE, _>> when a column is not found (the `expect` fails)
RECURSIVE RemoveColumns(_, _)
RemoveColumns(columns, removed) ==
    IF removed = <<>> THEN <<TRUE, columns>>
    ELSE LET pos == Position(columns, Head(removed))
         IN IF pos = 0 THEN <<FALSE, columns>>
            ELSE RemoveColumns(RemoveAt(columns, pos), Tail(removed))

\* HashMap entry(name).or_default() followed by push
PushSchema(bs, name, sv, columns) ==
    MapInsert(bs, name,
              Append(IF name \in DOMAIN bs THEN bs[name] ELSE <<>>, <<sv, columns>>))

BasePanic(a, bs) ==
    [result |-> "panic", arena |-> a, base_schemas |-> bs, node |-> NoNode]

BaseOk(a, bs) ==
    [result |-> "ok", arena |-> a, base_schemas |-> bs, node |-> Len(a)]

\* lines 423-433: exact match, reuse the node registered at that version
ReuseExistingBase(a, ns, bs, sv, name, existing_sv) ==
    IF <<name, existing_sv>> \notin DOMAIN ns THEN BasePanic(a, bs)
    ELSE BaseOk(MirNodeReuse(a, ns[<<name, existing_sv>>], sv), bs)

\* lines 477-508: adapt the node registered at that version
AdaptExistingBase(a, ns, bs, sv, name, existing_sv, schema, cols) ==
    IF <<name, existing_sv>> \notin DOMAIN ns THEN BasePanic(a, bs)
    ELSE LET Adapt(existing_node, columns_added, columns_removed) ==
                 \* column_specifications() is only defined on a Base
                 IF a[existing_node].inner.kind # "Base" THEN BasePanic(a, bs)
                 ELSE LET Remember(rem) ==
                              IF ~rem[1] THEN BasePanic(a, bs)
                              ELSE IF Len(rem[2]) # Len(a[existing_node].columns)
                                          + Len(columns_added) - Len(columns_removed)
                              THEN BasePanic(a, bs)
                              ELSE BaseOk(MirNodeAdaptBase(a, existing_node,
                                              columns_added, columns_removed),
                                          PushSchema(bs, name, sv, rem[2]))
                      IN Remember(RemoveColumns(
                             a[existing_node].inner.column_specs \o columns_added,
                             columns_removed))
         IN Adapt(ns[<<name, existing_sv>>], ColumnsAdded(schema, cols),
                  ColumnsRemoved(schema, cols))

\* lines 523-531
PrimaryKeys(keys) ==
    IF keys = <<>> THEN <<>>
    ELSE SelectSeq(keys[1], LAMBDA k : k.kind = "PrimaryKey")

\* a new Base without the assertion of line 533
FreshBase_FirstKey(a, bs, sv, name, cols, keys, transactional) ==
    IF \E i \in 1..Len(cols) : cols[i].column.table # name THEN BasePanic(a, bs)
    ELSE LET Make(primary_keys) ==
                 BaseOk(MirNodeNew(a, name, sv, Columns(cols),
                            BaseInner(cols,
                                      IF primary_keys # <<>>
                                      THEN primary_keys[1].columns ELSE <<>>,
                                      transactional, <<>>),
                            <<>>, <<>>),
                        PushSchema(bs, name, sv, cols))
         IN Make(PrimaryKeys(keys))

\* lines 517-583: a new Base
FreshBase(a, bs, sv, name, cols, keys, transactional) ==
    IF \E i \in 1..Len(cols) : cols[i].column.table # name THEN BasePanic(a, bs)
    ELSE LET Make(primary_keys) ==
                 IF Len(primary_keys) > 1 THEN BasePanic(a, bs)
                 ELSE BaseOk(MirNodeNew(a, name, sv, Columns(cols),
                                 BaseInner(cols,
                                           IF primary_keys # <<>>
                                           THEN primary_keys[1].columns ELSE <<>>,
                                           transactional, <<>>),
                                 <<>>, <<>>),
                             PushSchema(bs, name, sv, cols))
         IN Make(PrimaryKeys(keys))

\* lines 406-584.  Every branch of the loop body of lines 421-514 leaves the
\* loop (return, return, break), so only the newest schema is looked at.
MakeBaseNode(a, ns, bs, sv, name, cols, keys, transactional) ==
    LET Scan(existing_schemas) ==
            IF existing_schemas = <<>> THEN "fresh"
            ELSE IF existing_schemas[1][2] = cols THEN "reuse"
            ELSE IF IsSimpleChange(existing_schemas[1][2], cols) THEN "adapt"
            ELSE "fresh"
        Build(existing_schemas, path) ==
            IF path = "reuse"
            THEN ReuseExistingBase(a, ns, bs, sv, name, existing_schemas[1][1])
            ELSE IF path = "adapt"
            THEN AdaptExistingBase(a, ns, bs, sv, name, existing_schemas[1][1],
                                   existing_schemas[1][2], cols)
            ELSE FreshBase(a, bs, sv, name, cols, keys, transactional)
        Look(existing_schemas) == Build(existing_schemas, Scan(existing_schemas))
    IN Look(IF name \in DOMAIN bs THEN ExistingSchemas(bs, name) ELSE <<>>)

----------------------------------------------------------------------------
(* The outcome of a call *)

NoQuery == [name |-> NoneStr, roots |-> <<>>, leaf |-> NoNode]

Call(op, name, args, result, query, emitted) ==
    [op |-> op, name |-> name, args |-> args, result |-> result,
     query |-> query, emitted |-> emitted]

\* a panic aborts the lowering; nothing is called after it
CanCall(bound) == calls < bound /\ last.result # "panic"

----------------------------------------------------------------------------
(* named_base_to_mir, lines 333-352 *)

NamedBaseToMir(name, query, transactional) ==
    /\ calls' = calls + 1
    /\ schema_version' = schema_version
    /\ IF query.kind # "CreateTable" \/ name # query.table
       THEN /\ last' = Call("named_base_to_mir", name, query, "panic", NoQuery, <<>>)
            /\ UNCHANGED <<current, nodes, base_schemas, arena, queries>>
       ELSE LET Register(r, node_id) ==
                    /\ arena' = r.arena
                    /\ base_schemas' = r.base_schemas
                    /\ IF r.result = "panic"
                       THEN /\ last' = Call("named_base_to_mir", name, query, "panic",
                                            NoQuery, <<>>)
                            /\ UNCHANGED <<current, nodes, queries>>
                       ELSE /\ last' = Call("named_base_to_mir", name, query, "ok",
                                            MirQuerySingleton(name, r.node), <<r.node>>)
                            /\ queries' = Append(queries, MirQuerySingleton(name, r.node))
                            /\ IF node_id \notin DOMAIN nodes
                               THEN /\ nodes' = MapInsert(nodes, node_id, r.node)
                                    /\ current' = MapInsert(current, name, schema_version)
                               ELSE UNCHANGED <<current, nodes>>
            IN Register(MakeBaseNode(arena, nodes, base_schemas, schema_version,
                                     name, query.fields, query.keys, transactional),
                        <<name, schema_version>>)

----------------------------------------------------------------------------
(* upgrade_schema, lines 401-404 *)

\* the assertion of line 402 with >= for >
UpgradeSchema_Ge(new_version) ==
    /\ calls' = calls + 1
    /\ IF new_version >= schema_version
       THEN /\ schema_version' = new_version
            /\ last' = Call("upgrade_schema", NoneStr, new_version, "ok", NoQuery, <<>>)
       ELSE /\ schema_version' = schema_version
            /\ last' = Call("upgrade_schema", NoneStr, new_version, "panic", NoQuery, <<>>)
    /\ UNCHANGED <<current, nodes, base_schemas, arena, queries>>

UpgradeSchema(new_version) ==
    /\ calls' = calls + 1
    /\ IF new_version > schema_version
       THEN /\ schema_version' = new_version
            /\ last' = Call("upgrade_schema", NoneStr, new_version, "ok", NoQuery, <<>>)
       ELSE /\ schema_version' = schema_version
            /\ last' = Call("upgrade_schema", NoneStr, new_version, "panic", NoQuery, <<>>)
    /\ UNCHANGED <<current, nodes, base_schemas, arena, queries>>

----------------------------------------------------------------------------
(* Node constructors of the converter *)

\* lines 31-38
sanitize_leaf_column(c, view_name) ==
    [c EXCEPT !.table = view_name,
              !.function = NoneStr,
              !.alias = IF c.alias # NoneStr /\ c.alias = c.name THEN NoneStr ELSE c.alias]

SanitizeAll(columns, view_name) ==
    [i \in 1..Len(columns) |-> sanitize_leaf_column(columns[i], view_name)]

\* a lookup by the greatest registered version instead of `current`
GetViewTarget_Greatest(cur, ns, view_name) ==
    LET vs == {k[2] : k \in {kk \in DOMAIN ns : kk[1] = view_name}}
    IN IF vs = {} THEN <<"unknown", NoNode>>
       ELSE <<"ok", ns[<<view_name, CHOOSE v \in vs : \A w \in vs : w <= v>>]>>

\* get_view, lines 86-103: <<"unknown", _>> and <<"inconsistent", _>> are its
\* two panics; otherwise the node registered at current[view_name]
GetViewTarget(cur, ns, view_name) ==
    IF view_name \notin DOMAIN cur THEN <<"unknown", NoNode>>
    ELSE IF <<view_name, cur[view_name]>> \notin DOMAIN ns THEN <<"inconsistent", NoNode>>
    ELSE <<"ok", ns[<<view_name, cur[view_name]>>]>>

\* MirNode::column_id_for_column (crate `mir`): the 0-based position of the
\* column in the node, looked up through Reuse wrappers; -1 when absent
RECURSIVE ColumnIdForColumn(_, _, _)
ColumnIdForColumn(a, n, c) ==
    IF a[n].inner.kind = "Reuse" THEN ColumnIdForColumn(a, a[n].inner.node, c)
    ELSE IF \E i \in 1..Len(a[n].columns) : a[n].columns[i].name = c.name
    THEN (CHOOSE i \in 1..Len(a[n].columns) :
              /\ a[n].columns[i].name = c.name
              /\ \A j \in 1..(i-1) : a[n].columns[j].name # c.name) - 1
    ELSE -1

SeqMax(s) == CHOOSE m \in {s[i] : i \in 1..Len(s)} : \A i \in 1..Len(s) : s[i] <= m

\* the max of line 138 giving columns.len()
Max_First(x, y) == x

Max(x, y) == IF x >= y THEN x ELSE y

\* Iterator::rposition on the column name, 1-based, 0 for None
RPositionByName(columns, name) ==
    IF \E i \in 1..Len(columns) : columns[i].name = name
    THEN CHOOSE i \in 1..Len(columns) :
             /\ columns[i].name = name
             /\ \A j \in (i+1)..Len(columns) : columns[j].name # name
    ELSE 0

\* lines 120-131
FilterConditionOf(ct) ==
    IF ct.right.kind = "LiteralList" THEN [kind |-> "In", values |-> ct.right.values]
    ELSE [kind |-> "Equality", operator |-> ct.operator, value |-> ct.right.value]

\* to_conditions, lines 107-154
ToConditions(a, ct, columns, n) ==
    IF ct.left.kind # "Field" \/ ct.right.kind \notin {"Integer", "String", "LiteralList"}
    THEN [ok |-> FALSE, columns |-> columns, filters |-> <<>>]
    ELSE LET Place(l, f, absolute_column_ids, pos) ==
                 IF columns = <<>> \/ \E i \in 1..Len(columns) : absolute_column_ids[i] < 0
                 THEN [ok |-> FALSE, columns |-> columns, filters |-> <<>>]
                 ELSE LET Fill(filters) ==
                              IF pos = 0
                              THEN [ok |-> TRUE, columns |-> Append(columns, l),
                                    filters |-> Append(filters, f)]
                              ELSE [ok |-> TRUE, columns |-> columns,
                                    filters |-> [filters EXCEPT
                                                   ![absolute_column_ids[pos] + 1] = f]]
                      IN Fill([i \in 1..Max(Len(columns), SeqMax(absolute_column_ids) + 1)
                                  |-> <<>>])
         IN Place(ct.left.column, <<FilterConditionOf(ct)>>,
                  [i \in 1..Len(columns) |-> ColumnIdForColumn(a, n, columns[i])],
                  RPositionByName(columns, ct.left.column.name))

NodesPanic(a) == [ok |-> FALSE, arena |-> a, nodes |-> <<>>]

NodesOk(a, ns) == [ok |-> TRUE, arena |-> a, nodes |-> ns]

\* make_filter_node, lines 657-675
MakeFilterNode(a, sv, name, parent, cond) ==
    LET Make(tc) ==
            IF ~tc.ok THEN NodesPanic(a)
            ELSE NodesOk(MirNodeNew(a, name, sv, tc.columns,
                                    [kind |-> "Filter", conditions |-> tc.filters],
                                    <<parent>>, <<>>),
                         <<Len(a) + 1>>)
    IN Make(ToConditions(a, cond, a[parent].columns, parent))

\* the map of line 645 giving one emit list for all ancestors
MakeUnionFromSameBase_OneEmit(a, sv, name, ancestors, columns) ==
    IF ~(Len(ancestors) > 1) THEN NodesPanic(a)
    ELSE NodesOk(MirNodeNew(a, name, sv, columns,
                            [kind |-> "Union", emit |-> <<columns>>],
                            ancestors, <<>>),
                 <<Len(a) + 1>>)

\* make_union_from_same_base, lines 637-655
MakeUnionFromSameBase(a, sv, name, ancestors, columns) ==
    IF ~(Len(ancestors) > 1) THEN NodesPanic(a)
    ELSE NodesOk(MirNodeNew(a, name, sv, columns,
                            [kind |-> "Union",
                             emit |-> [i \in 1..Len(ancestors) |-> columns]],
                            ancestors, <<>>),
                 <<Len(a) + 1>>)

\* the format of line 1041 without the counter
FilterName_Fixed(name, nc) == name \o "_f"

\* line 1041: the name of the filter of a comparison
FilterName(name, nc) == name \o "_f" \o ToString(nc)

\* make_predicate_nodes, lines 983-1050
RECURSIVE MakePredicateNodes(_, _, _, _, _, _)
MakePredicateNodes(a, sv, name, parent, ce, nc) ==
    IF ce.kind = "ComparisonOp"
    THEN MakeFilterNode(a, sv, FilterName(name, nc), parent, ce)
    ELSE IF ce.kind = "LogicalOp" /\ ce.operator = "And"
    THEN LET Extend(left, right) ==
                 IF ~right.ok THEN NodesPanic(a)
                 ELSE NodesOk(right.arena, left.nodes \o right.nodes)
             Right(left) ==
                 IF ~left.ok THEN NodesPanic(a)
                 ELSE Extend(left, MakePredicateNodes(left.arena, sv, name,
                                       left.nodes[Len(left.nodes)], ce.right,
                                       nc + Len(left.nodes)))
         IN Right(MakePredicateNodes(a, sv, name, parent, ce.left, nc))
    ELSE IF ce.kind = "LogicalOp" /\ ce.operator = "Or"
    THEN LET Push(left, right, union) ==
                 IF ~union.ok THEN NodesPanic(a)
                 ELSE NodesOk(union.arena, left.nodes \o right.nodes \o union.nodes)
             Union(left, right) ==
                 IF ~right.ok THEN NodesPanic(a)
                 ELSE Push(left, right,
                           MakeUnionFromSameBase(right.arena, sv, name \o "_un",
                               <<left.nodes[Len(left.nodes)],
                                 right.nodes[Len(right.nodes)]>>,
                               a[parent].columns))
             Right(left) ==
                 IF ~left.ok THEN NodesPanic(a)
                 ELSE Union(left, MakePredicateNodes(left.arena, sv, name, parent,
                                      ce.right, nc + Len(left.nodes)))
         IN Right(MakePredicateNodes(a, sv, name, parent, ce.left, nc))
    ELSE NodesPanic(a)

\* make_topk_node without the order of lines 960-963
MakeTopkNode_Unordered(a, sv, name, parent, group_by, order, limit) ==
    IF limit.offset # 0 THEN NodesPanic(a)
    ELSE NodesOk(MirNodeNew(a, name, sv, a[parent].columns,
                            [kind |-> "TopK", order |-> <<>>,
                             group_by |-> group_by, k |-> limit.limit, offset |-> 0],
                            <<parent>>, <<>>),
                 <<Len(a) + 1>>)

\* the node of lines 968-980 made without the assert of line 965
MakeTopkNode_AnyOffset(a, sv, name, parent, group_by, order, limit) ==
    NodesOk(MirNodeNew(a, name, sv, a[parent].columns,
                       [kind |-> "TopK",
                        order |-> IF order = <<>> THEN <<>> ELSE <<order[1].columns>>,
                        group_by |-> group_by, k |-> limit.limit, offset |-> limit.offset],
                       <<parent>>, <<>>),
            <<Len(a) + 1>>)

\* make_topk_node, lines 950-981
MakeTopkNode(a, sv, name, parent, group_by, order, limit) ==
    IF limit.offset # 0 THEN NodesPanic(a)
    ELSE NodesOk(MirNodeNew(a, name, sv, a[parent].columns,
                            [kind |-> "TopK",
                             order |-> IF order = <<>> THEN <<>> ELSE <<order[1].columns>>,
                             group_by |-> group_by, k |-> limit.limit, offset |-> 0],
                            <<parent>>, <<>>),
                 <<Len(a) + 1>>)

\* make_project_node, lines 870-948
MakeProjectNode(a, sv, name, parent_node, proj_cols, arithmetic, literals, is_leaf) ==
    LET names == [i \in 1..Len(literals) |-> literals[i][1]]
                 \o [i \in 1..Len(arithmetic) |-> arithmetic[i][1]]
        field(c) == IF c.alias # NoneStr
                    THEN [name |-> c.alias,
                          table |-> IF is_leaf THEN name ELSE c.table,
                          alias |-> NoneStr, function |-> c.function]
                    ELSE IF is_leaf THEN sanitize_leaf_column(c, name) ELSE c
        fields == [i \in 1..Len(proj_cols) |-> field(proj_cols[i])]
                  \o [i \in 1..Len(names) |->
                         [name |-> names[i], alias |-> NoneStr, table |-> name,
                          function |-> NoneStr]]
        emit_cols == [i \in 1..Len(proj_cols) |-> [proj_cols[i] EXCEPT !.alias = NoneStr]]
    IN MirNodeNew(a, name, sv, fields,
                  [kind |-> "Project", emit |-> emit_cols, literals |-> literals,
                   arithmetic |-> arithmetic],
                  <<parent_node>>, <<>>)

----------------------------------------------------------------------------
(* make_nodes_for_selection, lines 1103-1467, in the policy-free universe   *)
(* with no group memberships (Universe::default()) and for query graphs     *)
(* without join edges and without computed columns.                         *)

HexDigits == <<"0", "1", "2", "3", "4", "5", "6", "7", "8", "9",
               "a", "b", "c", "d", "e", "f">>

\* format!("{:x}", hash)
RECURSIVE Hex(_)
Hex(n) == IF n < 16 THEN HexDigits[n + 1]
          ELSE Hex(n \div 16) \o HexDigits[(n % 16) + 1]

\* lines 1119-1125
UFormat(universe) == IF universe.id = "global" THEN "" ELSE "_u" \o universe.id

\* The relation names of the model in lexicographic order, the order of &str
RelationOrder == <<"computed_columns", "q", "t", "x">>

StrLess(x, y) ==
    \E i \in 1..Len(RelationOrder), j \in 1..Len(RelationOrder) :
        i < j /\ RelationOrder[i] = x /\ RelationOrder[j] = y

\* r put before the first member of the sorted sequence s that is greater
RECURSIVE InsertSorted(_, _)
InsertSorted(s, r) ==
    IF s = <<>> THEN <<r>>
    ELSE IF StrLess(r, Head(s)) THEN <<r>> \o s
    ELSE <<Head(s)>> \o InsertSorted(Tail(s), r)

\* line 1135: slice::sort
RECURSIVE SortStrs(_)
SortStrs(s) ==
    IF s = <<>> THEN <<>>
    ELSE InsertSorted(SortStrs(SubSeq(s, 1, Len(s) - 1)), s[Len(s)])

\* lines 1134-1135 without the sort
SortedRels_Unsorted(qg) == qg.keys

\* lines 1134-1135: qg.keys is the order in which relations.keys() yields the
\* names of the relations
SortedRels(qg) == SortStrs(qg.keys)

BaseRels(qg) == SelectSeq(SortedRels(qg), LAMBDA r : r # "computed_columns")

\* lines 1136-1145: a Reuse of the current view of every relation, in order
RECURSIVE GetViews(_, _, _, _, _)
GetViews(a, cur, ns, sv, rels) ==
    IF rels = <<>> THEN NodesOk(a, <<>>)
    ELSE LET Push(rest) ==
                 IF ~rest.ok THEN NodesPanic(a)
                 ELSE NodesOk(rest.arena, <<Len(a) + 1>> \o rest.nodes)
             View(v) ==
                 IF v[1] # "ok" THEN NodesPanic(a)
                 ELSE Push(GetViews(MirNodeReuse(a, v[2], sv), cur, ns, sv, Tail(rels)))
         IN View(GetViewTarget(cur, ns, Head(rels)))

\* the base node of a relation among base_nodes, which follow rels
NodeForRel(rels, base_nodes, rel) ==
    base_nodes[CHOOSE i \in 1..Len(rels) : rels[i] = rel]

\* lines 727-738 keeping the computed column as it is given
MakeGroupedNode_KeepAlias(a, sv, name, computed_col, parent_node, over_col, group_by, node_type) ==
    LET Make(combined_columns) ==
            MirNodeNew(a, name, sv, combined_columns,
                       IF node_type.kind = "GroupConcat"
                       THEN [kind |-> "GroupConcat", on |-> over_col,
                             separator |-> node_type.separator]
                       ELSE [kind |-> node_type.kind, on |-> over_col,
                             group_by |-> group_by, op |-> node_type.op],
                       <<parent_node>>, <<>>)
    IN Make(Append(group_by, computed_col))

\* make_grouped_node, lines 714-785; node_type is Aggregation or Extremum with
\* its kind (op), or GroupConcat with its separator
MakeGroupedNode(a, sv, name, computed_col, parent_node, over_col, group_by, node_type) ==
    LET Make(combined_columns) ==
            MirNodeNew(a, name, sv, combined_columns,
                       IF node_type.kind = "GroupConcat"
                       THEN [kind |-> "GroupConcat", on |-> over_col,
                             separator |-> node_type.separator]
                       ELSE [kind |-> node_type.kind, on |-> over_col,
                             group_by |-> group_by, op |-> node_type.op],
                       <<parent_node>>, <<>>)
    IN Make(Append(group_by,
                   IF computed_col.alias = NoneStr THEN computed_col
                   ELSE [name |-> computed_col.alias, alias |-> NoneStr,
                         table |-> computed_col.table,
                         function |-> computed_col.function]))

\* A function of a column is written as the name of its variant of
\* nom_sql::FunctionExpression; its argument is column b of t, and the
\* separator of GROUP_CONCAT a comma
FunctionArgument(func) == [name |-> "b", table |-> "t", alias |-> NoneStr,
                           function |-> NoneStr]

FunctionSeparator(func) == ","

\* make_function_node, lines 677-712
MakeFunctionNode(a, sv, name, func_col, group_cols, parent) ==
    LET mknode(over, t) ==
            NodesOk(MakeGroupedNode(a, sv, name, func_col, parent, over, group_cols, t),
                    <<Len(a) + 1>>)
        Match(func) ==
            IF func = "Sum"
            THEN mknode(FunctionArgument(func), [kind |-> "Aggregation", op |-> "SUM"])
            ELSE IF func = "Count"
            THEN mknode(FunctionArgument(func), [kind |-> "Aggregation", op |-> "COUNT"])
            ELSE IF func = "CountStar" THEN NodesPanic(a)
            ELSE IF func = "Max"
            THEN mknode(FunctionArgument(func), [kind |-> "Extremum", op |-> "MAX"])
            ELSE IF func = "Min"
            THEN mknode(FunctionArgument(func), [kind |-> "Extremum", op |-> "MIN"])
            ELSE IF func = "GroupConcat"
            THEN mknode(FunctionArgument(func),
                        [kind |-> "GroupConcat", separator |-> FunctionSeparator(func)])
            ELSE NodesPanic(a)
    IN IF func_col.function = NoneStr THEN NodesPanic(a)
       ELSE Match(func_col.function)

\* the assert of line 817 left out
MakeJoinNode_AnyOperator(a, sv, name, jp, left_node, right_node, kind) ==
    IF jp.left.kind # "Field" \/ jp.right.kind # "Field" THEN NodesPanic(a)
    ELSE LET Make(fields) ==
                 NodesOk(MirNodeNew(a, name, sv, fields,
                                    [kind |-> IF kind = "Inner" THEN "Join" ELSE "LeftJoin",
                                     on_left |-> <<jp.left.column>>,
                                     on_right |-> <<jp.right.column>>,
                                     project |-> fields],
                                    <<left_node, right_node>>, <<>>),
                         <<Len(a) + 1>>)
         IN Make(a[left_node].columns \o a[right_node].columns)

\* make_join_node, lines 787-852
MakeJoinNode(a, sv, name, jp, left_node, right_node, kind) ==
    IF jp.operator \notin {"Equal", "In"} THEN NodesPanic(a)
    ELSE IF jp.left.kind # "Field" \/ jp.right.kind # "Field" THEN NodesPanic(a)
    ELSE LET Make(fields) ==
                 NodesOk(MirNodeNew(a, name, sv, fields,
                                    [kind |-> IF kind = "Inner" THEN "Join" ELSE "LeftJoin",
                                     on_left |-> <<jp.left.column>>,
                                     on_right |-> <<jp.right.column>>,
                                     project |-> fields],
                                    <<left_node, right_node>>, <<>>),
                         <<Len(a) + 1>>)
         IN Make(a[left_node].columns \o a[right_node].columns)

\* controller::sql::mir::join::make_joins (join.rs): a Join or LeftJoin for
\* each edge of the query graph in order, made by make_join_node over the
\* node of the left relation (the join before it, after the first) and the
\* node of the right relation
RECURSIVE JoinNodes(_, _, _, _, _, _, _)
JoinNodes(acc, sv, name, rels, base_nodes, edges, node_count) ==
    IF ~acc.ok \/ edges = <<>> THEN acc
    ELSE LET edge == Head(edges)
             Push(jn) ==
                 IF ~jn.ok THEN [acc EXCEPT !.ok = FALSE]
                 ELSE NodesOk(jn.arena, acc.nodes \o jn.nodes)
         IN JoinNodes(Push(MakeJoinNode(acc.arena, sv,
                               name \o "_n" \o ToString(node_count + Len(acc.nodes)),
                               edge.jp,
                               IF acc.nodes = <<>>
                               THEN NodeForRel(rels, base_nodes, edge.left)
                               ELSE acc.nodes[Len(acc.nodes)],
                               NodeForRel(rels, base_nodes, edge.right), edge.kind)),
                      sv, name, rels, base_nodes, Tail(edges), node_count)

MakeJoins(a, sv, name, qg, base_nodes, node_count) ==
    JoinNodes(NodesOk(a, <<>>), sv, name, BaseRels(qg), base_nodes, qg.edges, node_count)

\* controller::sql::mir::grouped::make_grouped (grouped.rs): no computed
\* columns, no grouped nodes
MakeGrouped(a, sv, name, qg, prev_node, node_count) == NodesOk(a, <<>>)

\* SecurityBoundary::make_security_boundary (security.rs): without policies
\* the frontier is the node built so far and no node is added
MakeSecurityBoundary(a, universe, prev_node) ==
    [arena |-> a, last_policy_nodes |-> <<prev_node>>, policy_nodes |-> <<>>]

\* lines 1260-1300: the predicate chains of one relation, predicate i of the
\* relation named q_{hash}_n{count}_p{i}; acc = [ok, arena, nodes, prev, count]
RECURSIVE PredicateChains(_, _, _, _, _, _)
PredicateChains(acc, sv, qg, universe, preds, i) ==
    IF ~acc.ok \/ i > Len(preds) THEN acc
    ELSE LET Chain(fns) ==
                 IF ~fns.ok \/ fns.nodes = <<>>
                 THEN [acc EXCEPT !.ok = FALSE]
                 ELSE PredicateChains([ok |-> TRUE, arena |-> fns.arena,
                                       nodes |-> acc.nodes \o fns.nodes,
                                       prev |-> fns.nodes[Len(fns.nodes)],
                                       count |-> acc.count + Len(fns.nodes)],
                                      sv, qg, universe, preds, i + 1)
         IN Chain(MakePredicateNodes(acc.arena, sv,
                      "q_" \o Hex(qg.hash) \o "_n" \o ToString(acc.count)
                           \o "_p" \o ToString(i - 1) \o UFormat(universe),
                      acc.prev, preds[i], 0))

RECURSIVE RelationPredicates(_, _, _, _, _)
RelationPredicates(acc, sv, qg, universe, rels) ==
    IF ~acc.ok \/ rels = <<>> THEN acc
    ELSE RelationPredicates(
             PredicateChains(acc, sv, qg, universe,
                             qg.relations[Head(rels)].predicates, 1),
             sv, qg, universe, Tail(rels))

\* lines 1353-1374: the data columns, then the parameters not among them
ProjectedColumns(qg) ==
    LET data == SelectSeq(qg.columns, LAMBDA oc : oc.kind = "Data")
        cols == [i \in 1..Len(data) |-> data[i].column]
    IN cols \o SelectSeq(qg.parameters, LAMBDA pc : ~Contains(cols, pc))

\* lines 1375-1384
ProjectedArithmetic(qg) ==
    LET ar == SelectSeq(qg.columns, LAMBDA oc : oc.kind = "Arithmetic")
    IN [i \in 1..Len(ar) |-> <<ar[i].name, ar[i].expression>>]

\* the test of line 1397 without the parameters
HasBogokey_Always(qg, has_leaf) == has_leaf

\* lines 1385-1402
HasBogokey(qg, has_leaf) == has_leaf /\ qg.parameters = <<>>

ProjectedLiterals(qg, has_leaf) ==
    LET li == SelectSeq(qg.columns, LAMBDA oc : oc.kind = "Literal")
    IN [i \in 1..Len(li) |-> <<li[i].name, li[i].value>>]
       \o (IF HasBogokey(qg, has_leaf) THEN <<<<"bogokey", 0>>>> ELSE <<>>)

\* the Leaf named after the projection instead of the query
MakeLeafNode_Ident(a, sv, name, ident, qg, has_leaf, leaf_project_node) ==
    MirNodeNew(a, ident, sv, SanitizeAll(a[leaf_project_node].columns, name),
               [kind |-> "Leaf", node |-> leaf_project_node,
                keys |-> IF HasBogokey(qg, has_leaf)
                         THEN <<[name |-> "bogokey", alias |-> NoneStr,
                                 table |-> ident, function |-> NoneStr]>>
                         ELSE qg.parameters],
               <<leaf_project_node>>, <<>>)

\* lines 1421-1457: the Leaf on top of the projection
MakeLeafNode(a, sv, name, ident, qg, has_leaf, leaf_project_node) ==
    MirNodeNew(a, name, sv, SanitizeAll(a[leaf_project_node].columns, name),
               [kind |-> "Leaf", node |-> leaf_project_node,
                keys |-> IF HasBogokey(qg, has_leaf)
                         THEN <<[name |-> "bogokey", alias |-> NoneStr,
                                 table |-> ident, function |-> NoneStr]>>
                         ELSE qg.parameters],
               <<leaf_project_node>>, <<>>)

MakeNodesForSelection(a, cur, ns, sv, name, st, qg, has_leaf, universe) ==
    LET NodeName(count) ==
            "q_" \o Hex(qg.hash) \o "_n" \o ToString(count) \o UFormat(universe)
        \* lines 1149 and 1243: the name given to make_joins and make_grouped
        QueryName == "q_" \o Hex(qg.hash) \o UFormat(universe)
        \* lines 1350-1457: the projection and the leaf
        Leaf(a1, nodes_added, ident) ==
            IF has_leaf
            THEN NodesOk(MakeLeafNode(a1, sv, name, ident, qg, has_leaf, Len(a1)),
                         nodes_added \o <<Len(a1), Len(a1) + 1>>)
            ELSE NodesOk(a1, nodes_added \o <<Len(a1)>>)
        Project(a0, nodes_added, final_node, ident) ==
            Leaf(MakeProjectNode(a0, sv, ident, final_node,
                                 ProjectedColumns(qg), ProjectedArithmetic(qg),
                                 ProjectedLiterals(qg, has_leaf), ~has_leaf),
                 nodes_added, ident)
        \* lines 1302-1331: the TopK node and the nodes of this policy clone
        Final(added, func, preds, topk) ==
            IF ~topk.ok THEN NodesPanic(a)
            ELSE Project(topk.arena,
                         added \o func.nodes \o topk.nodes \o preds.nodes,
                         IF topk.nodes # <<>> THEN topk.nodes[1] ELSE preds.prev,
                         IF has_leaf THEN NodeName(preds.count + Len(topk.nodes))
                         ELSE name)
        TopK(added, func, preds) ==
            IF ~preds.ok THEN NodesPanic(a)
            ELSE Final(added, func, preds,
                       IF st.limit # <<>>
                       THEN MakeTopkNode(preds.arena, sv, NodeName(preds.count),
                                         preds.prev, qg.parameters, st.order,
                                         st.limit[1])
                       ELSE NodesOk(preds.arena, <<>>))
        \* lines 1238-1300: grouped nodes, then the predicate chains
        Predicates(added, n, count, func) ==
            TopK(added, func,
                 RelationPredicates([ok |-> TRUE, arena |-> func.arena,
                                     nodes |-> <<>>, prev |-> n,
                                     count |-> count + Len(func.nodes)],
                                    sv, qg, universe, BaseRels(qg)))
        Clone(added, count, sec) ==
            Predicates(added \o sec.policy_nodes, sec.last_policy_nodes[1], count,
                       MakeGrouped(sec.arena, sv, QueryName, qg,
                                   sec.last_policy_nodes[1], count))
        \* lines 1147-1163: the joins; without any, the single base
        Joined(base, joins) ==
            IF ~joins.ok THEN NodesPanic(a)
            ELSE IF joins.nodes = <<>> /\ Len(base.nodes) # 1 THEN NodesPanic(a)
            ELSE Clone(base.nodes \o joins.nodes, Len(joins.nodes),
                       MakeSecurityBoundary(joins.arena, universe,
                           IF joins.nodes # <<>> THEN joins.nodes[Len(joins.nodes)]
                           ELSE base.nodes[Len(base.nodes)]))
        \* lines 1132-1145
        Bases(base) ==
            IF ~base.ok THEN NodesPanic(a)
            ELSE Joined(base, MakeJoins(base.arena, sv, QueryName, qg, base.nodes, 0))
    IN Bases(GetViews(a, cur, ns, sv, BaseRels(qg)))

----------------------------------------------------------------------------
(* named_query_to_mir, lines 354-399 *)

\* the test of line 370 without its negation
RegisterIfAbsent_Inverted(ns, node_id, n) ==
    IF node_id \in DOMAIN ns THEN MapInsert(ns, node_id, n) ELSE ns

\* lines 366-372: only add the node if it is not registered at this version
RegisterIfAbsent(ns, node_id, n) ==
    IF node_id \notin DOMAIN ns THEN MapInsert(ns, node_id, n) ELSE ns

RECURSIVE RegisterAll(_, _, _, _)
RegisterAll(ns, a, sv, emitted) ==
    IF emitted = <<>> THEN ns
    ELSE RegisterAll(RegisterIfAbsent(ns, <<a[Head(emitted)].name, sv>>, Head(emitted)),
                     a, sv, Tail(emitted))

\* lines 374-377
RootsOf(a, emitted) == SelectSeq(emitted, LAMBDA n : Len(a[n].ancestors) = 0)

\* the test of line 378 on the ancestors instead of the children
LeavesOf_NoAncestors(a, emitted) == SelectSeq(emitted, LAMBDA n : Len(a[n].ancestors) = 0)

\* lines 378-382
LeavesOf(a, emitted) == SelectSeq(emitted, LAMBDA n : Len(a[n].children) = 0)

NamedQueryToMir(name, sq, qg, has_leaf, universe) ==
    LET args == [sq |-> sq, qg |-> qg, has_leaf |-> has_leaf, universe |-> universe]
        Finish(r, roots, leaves) ==
            /\ arena' = r.arena
            /\ nodes' = RegisterAll(nodes, r.arena, schema_version, r.nodes)
            /\ IF Len(leaves) # 1
               THEN /\ last' = Call("named_query_to_mir", name, args, "panic",
                                    NoQuery, r.nodes)
                    /\ UNCHANGED <<current, queries>>
               ELSE /\ current' = MapInsert(current, r.arena[leaves[1]].name,
                                            schema_version)
                    /\ queries' = Append(queries, [name |-> name, roots |-> roots,
                                                   leaf |-> leaves[1]])
                    /\ last' = Call("named_query_to_mir", name, args, "ok",
                                    [name |-> name, roots |-> roots, leaf |-> leaves[1]],
                                    r.nodes)
        Register(r) ==
            IF ~r.ok
            THEN /\ last' = Call("named_query_to_mir", name, args, "panic", NoQuery, <<>>)
                 /\ UNCHANGED <<current, nodes, arena, queries>>
            ELSE Finish(r, RootsOf(r.arena, r.nodes), LeavesOf(r.arena, r.nodes))
    IN /\ calls' = calls + 1
       /\ UNCHANGED <<schema_version, base_schemas>>
       /\ Register(MakeNodesForSelection(arena, current, nodes, schema_version,
                                         name, sq, qg, has_leaf, universe))

----------------------------------------------------------------------------
(* add_leaf_below, lines 156-227 *)

\* the match of lines 167-172 without the parameters
LeafBelowColumns_Bare(parent_columns, params, project_columns) ==
    IF project_columns # <<>> THEN project_columns[1] ELSE parent_columns

\* lines 167-172: the columns of the node below the new leaf
LeafBelowColumns(parent_columns, params, project_columns) ==
    IF project_columns # <<>> THEN project_columns[1] \o params ELSE parent_columns

AddLeafBelow(prior_leaf, name, params, project_columns) ==
    LET args == [prior_leaf |-> prior_leaf, params |-> params,
                 project_columns |-> project_columns]
        \* lines 216-226: always register leaves
        Register(a3, parent, n) ==
            /\ arena' = a3
            /\ current' = MapInsert(current, name, schema_version)
            /\ nodes' = MapInsert(nodes, <<name, schema_version>>, Len(a3))
            /\ queries' = Append(queries, [name |-> name, roots |-> <<parent>>,
                                           leaf |-> Len(a3)])
            /\ last' = Call("add_leaf_below", name, args, "ok",
                            [name |-> name, roots |-> <<parent>>, leaf |-> Len(a3)],
                            <<parent, n, Len(a3)>>)
        \* lines 200-214
        NewLeaf(a2, parent, columns) ==
            Register(MirNodeNew(a2, name, schema_version, SanitizeAll(columns, name),
                                [kind |-> "Leaf", node |-> parent, keys |-> params],
                                <<Len(a2)>>, <<>>),
                     parent, Len(a2))
        \* lines 174-198
        Below(a1, columns) ==
            NewLeaf(IF project_columns # <<>>
                    THEN MirNodeNew(a1, name \o "_reproject", schema_version, columns,
                                    [kind |-> "Project", emit |-> columns,
                                     literals |-> <<>>, arithmetic |-> <<>>],
                                    <<Len(a1)>>, <<>>)
                    ELSE MirNodeNew(a1, name \o "_id", schema_version, columns,
                                    [kind |-> "Identity"], <<Len(a1)>>, <<>>),
                    Len(a1), columns)
    IN /\ calls' = calls + 1
       /\ UNCHANGED <<schema_version, base_schemas>>
       \* lines 164-172
       /\ Below(MirNodeReuse(arena, prior_leaf, schema_version),
                LeafBelowColumns(arena[prior_leaf].columns, params, project_columns))

----------------------------------------------------------------------------
(* compound_query_to_mir, lines 229-314 *)

NamesOf(columns) == {columns[i].name : i \in 1..Len(columns)}

\* the loop of lines 610-620 without the test on selected_cols
RECURSIVE EmitOf_All(_, _, _)
EmitOf_All(acols, columns, selected_cols) ==
    IF columns = <<>> THEN acols
    ELSE LET ac == Head(columns)
         IN EmitOf_All(IF ac.name \notin NamesOf(acols)
                       THEN Append(acols, ac) ELSE acols,
                       Tail(columns), selected_cols)

\* lines 610-620: the selected columns of one ancestor, first occurrence of
\* each name, in the ancestor's order
RECURSIVE EmitOf(_, _, _)
EmitOf(acols, columns, selected_cols) ==
    IF columns = <<>> THEN acols
    ELSE LET ac == Head(columns)
         IN EmitOf(IF ac.name \in selected_cols /\ ac.name \notin NamesOf(acols)
                   THEN Append(acols, ac) ELSE acols,
                   Tail(columns), selected_cols)

\* make_union_node, lines 586-635
MakeUnionNode(a, sv, name, ancestors) ==
    IF ~(Len(ancestors) > 1) THEN NodesPanic(a)
    ELSE LET Make(selected_cols, emit) ==
                 IF \E i \in 1..Len(emit) : Len(emit[i]) # Cardinality(selected_cols)
                 THEN NodesPanic(a)
                 ELSE NodesOk(MirNodeNew(a, name, sv, emit[1],
                                         [kind |-> "Union", emit |-> emit],
                                         ancestors, <<>>),
                              <<Len(a) + 1>>)
             Emit(selected_cols) ==
                 Make(selected_cols,
                      [i \in 1..Len(ancestors) |->
                          EmitOf(<<>>, a[ancestors[i]].columns, selected_cols)])
         IN Emit({c \in NamesOf(a[ancestors[1]].columns) :
                     \A i \in 1..Len(ancestors) : c \in NamesOf(a[ancestors[i]].columns)})

\* the fold of lines 308-311 keeping the roots of the first child only
ConcatRoots_First(sqs) == IF sqs = <<>> THEN <<>> ELSE Head(sqs).roots

\* lines 306-311
RECURSIVE ConcatRoots(_)
ConcatRoots(sqs) == IF sqs = <<>> THEN <<>> ELSE Head(sqs).roots \o ConcatRoots(Tail(sqs))

CompoundQueryToMir(name, sqs, op, order, limit, has_leaf) ==
    LET args == [sqs |-> sqs, op |-> op, order |-> order, limit |-> limit,
                 has_leaf |-> has_leaf]
        sv == schema_version
        union_name == IF ~has_leaf /\ limit = <<>> THEN name ELSE name \o "_union"
        topk_name == IF ~has_leaf THEN name ELSE name \o "_topk"
        \* lines 299-313
        Finish(a3, ns2, leaf_node, emitted) ==
            /\ arena' = a3
            /\ current' = MapInsert(current, a3[leaf_node].name, sv)
            /\ nodes' = RegisterIfAbsent(ns2, <<name, sv>>, leaf_node)
            /\ queries' = Append(queries, [name |-> name, roots |-> ConcatRoots(sqs),
                                           leaf |-> leaf_node])
            /\ last' = Call("compound_query_to_mir", name, args, "ok",
                            [name |-> name, roots |-> ConcatRoots(sqs),
                             leaf |-> leaf_node],
                            emitted)
        \* lines 283-297
        Leaf(a2, ns2, final_node, sanitized_columns, emitted) ==
            IF has_leaf
            THEN Finish(MirNodeNew(a2, name, sv, sanitized_columns,
                                   [kind |-> "Leaf", node |-> final_node, keys |-> <<>>],
                                   <<final_node>>, <<>>),
                        ns2, Len(a2) + 1, emitted \o <<Len(a2) + 1>>)
            ELSE Finish(a2, ns2, final_node, emitted)
        \* lines 263-281
        TopK(a1, ns1, union_node, sanitized_columns, topk) ==
            IF ~topk.ok
            THEN /\ last' = Call("compound_query_to_mir", name, args, "panic",
                                 NoQuery, <<union_node>>)
                 /\ arena' = a1
                 /\ nodes' = ns1
                 /\ UNCHANGED <<current, queries>>
            ELSE IF topk.nodes # <<>>
            THEN Leaf(topk.arena,
                      RegisterIfAbsent(ns1, <<topk_name, sv>>, topk.nodes[1]),
                      topk.nodes[1], sanitized_columns, <<union_node, topk.nodes[1]>>)
            ELSE Leaf(a1, ns1, union_node, sanitized_columns, <<union_node>>)
        \* lines 249-261
        Columns2(a1, union_node, columns, sanitized_columns) ==
            TopK(a1, RegisterIfAbsent(nodes, <<union_name, sv>>, union_node),
                 union_node, sanitized_columns,
                 IF limit # <<>>
                 THEN MakeTopkNode(a1, sv, topk_name, union_node,
                                   IF ~has_leaf THEN sanitized_columns ELSE columns,
                                   order, limit[1])
                 ELSE NodesOk(a1, <<>>))
        \* lines 243-248
        Union(union) ==
            IF ~union.ok
            THEN /\ last' = Call("compound_query_to_mir", name, args, "panic",
                                 NoQuery, <<>>)
                 /\ UNCHANGED <<current, nodes, arena, queries>>
            ELSE Columns2(union.arena, union.nodes[1],
                          union.arena[union.nodes[1]].columns,
                          SanitizeAll(union.arena[union.nodes[1]].columns, name))
    IN /\ calls' = calls + 1
       /\ UNCHANGED <<schema_version, base_schemas>>
       /\ Union(IF op = "Union"
                THEN MakeUnionNode(arena, sv, union_name,
                                   [i \in 1..Len(sqs) |-> sqs[i].leaf])
                ELSE NodesPanic(arena))

----------------------------------------------------------------------------
(* get_view, lines 86-103 *)

GetView(view_name) ==
    LET Wrap(v) ==
            IF v[1] # "ok"
            THEN /\ last' = Call("get_view", view_name, v[1], "panic", NoQuery, <<>>)
                 /\ UNCHANGED arena
            ELSE /\ arena' = MirNodeReuse(arena, v[2], schema_version)
                 /\ last' = Call("get_view", view_name, v[1], "ok", NoQuery,
                                 <<Len(arena) + 1>>)
    IN /\ calls' = calls + 1
       /\ UNCHANGED <<schema_version, current, nodes, base_schemas, queries>>
       /\ Wrap(GetViewTarget(current, nodes, view_name))

----------------------------------------------------------------------------
(* The inputs of the driver *)

ta == Column("t", "a")
tb == Column("t", "b")
tc == Column("t", "c")
ux == Column("u", "x")
xa == Column("x", "a")
xc == Column("x", "c")

IntSpec(c) == ColumnSpecification(c, "int")

CreateTable(table, fields, keys) ==
    [kind |-> "CreateTable", table |-> table, fields |-> fields, keys |-> keys]

FieldsAB == <<IntSpec(ta), IntSpec(tb)>>
FieldsABC == <<IntSpec(ta), IntSpec(tb), IntSpec(tc)>>
FieldsBA == <<IntSpec(tb), IntSpec(ta)>>
FieldsC == <<IntSpec(tc)>>
FieldsAX == <<IntSpec(ta), IntSpec(ux)>>

\* CREATE TABLE statements for table t: no key, a PRIMARY KEY over two columns
\* next to a UNIQUE key, two PRIMARY KEYs, more columns, other order with a
\* key, other columns, a column of another table
BaseQueries ==
    { CreateTable("t", FieldsAB, <<>>),
      CreateTable("t", FieldsAB, << <<TableKey("UniqueKey", <<ta>>),
                                      TableKey("PrimaryKey", <<ta, tb>>)>> >>),
      CreateTable("t", FieldsAB, << <<TableKey("PrimaryKey", <<ta>>),
                                      TableKey("PrimaryKey", <<tb>>)>> >>),
      CreateTable("t", FieldsABC, <<>>),
      CreateTable("t", FieldsBA, << <<TableKey("PrimaryKey", <<tb>>)>> >>),
      CreateTable("t", FieldsC, <<>>),
      CreateTable("t", FieldsAX, <<>>) }

\* what the store-level specification registers: one table, and a statement
\* that is no CREATE TABLE
StoreQueries ==
    { CreateTable("t", FieldsAB, <<>>),
      [kind |-> "Select", table |-> "t", fields |-> <<>>, keys |-> <<>>] }

Global == [id |-> "global", group |-> NoneStr]

Field(c) == [kind |-> "Field", column |-> c]

Integer(i) == [kind |-> "Integer", value |-> i]

Comparison(c, i) ==
    [kind |-> "ComparisonOp", operator |-> "Equal", left |-> Field(c), right |-> Integer(i)]

Logical(op, l, r) == [kind |-> "LogicalOp", operator |-> op, left |-> l, right |-> r]

Data(c) == [kind |-> "Data", column |-> c]

QueryGraph(hash, rel, predicates, parameters) ==
    [hash |-> hash, relations |-> [r \in {rel} |-> [predicates |-> predicates]],
     keys |-> <<rel>>, edges |-> <<>>,
     columns |-> <<Data(ta)>>, parameters |-> parameters]

\* SELECT a AS x, 1 AS one FROM rel
AliasedGraph(hash, rel, parameters) ==
    [hash |-> hash, relations |-> [r \in {rel} |-> [predicates |-> <<>>]],
     keys |-> <<rel>>, edges |-> <<>>,
     columns |-> <<Data([ta EXCEPT !.alias = "x"]),
                   [kind |-> "Literal", name |-> "one", value |-> 1]>>,
     parameters |-> parameters]

Select(limit) == [order |-> <<>>, limit |-> limit]

Limit(k, offset) == <<[limit |-> k, offset |-> offset]>>

\* ORDER BY cols
OrderBy(cols) == <<[columns |-> cols]>>

SelectOrdered(order, limit) == [order |-> order, limit |-> limit]

\* SELECT a FROM t, SELECT a FROM t WHERE b = 1 OR b = 2, SELECT a FROM x
StoreGraphs ==
    { QueryGraph(31, "t", <<>>, <<>>),
      QueryGraph(31, "t", <<Logical("Or", Comparison(tb, 1), Comparison(tb, 2))>>, <<>>),
      QueryGraph(31, "x", <<>>, <<>>) }

\* WHERE clauses over t: none, one comparison, a conjunction, a disjunction,
\* a comparison followed by a disjunction
QueryPredicates ==
    { <<>>,
      <<Comparison(tb, 1)>>,
      <<Logical("And", Comparison(ta, 1), Comparison(tb, 2))>>,
      <<Logical("Or", Comparison(tb, 1), Comparison(tb, 2))>>,
      <<Comparison(ta, 1), Logical("Or", Comparison(tb, 1), Comparison(tb, 2))>> }

\* SELECT a FROM t WHERE ..., without parameter
QueryGraphs == {QueryGraph(31, "t", p, <<>>) : p \in QueryPredicates}

\* no LIMIT, LIMIT 10, LIMIT 10 OFFSET 1, ORDER BY a LIMIT 10
QuerySelects ==
    {Select(<<>>), Select(Limit(10, 0)), Select(Limit(10, 1)),
     SelectOrdered(OrderBy(<< <<ta, "Asc">> >>), Limit(10, 0))}

Request(sq, qg, has_leaf) == [sq |-> sq, qg |-> qg, has_leaf |-> has_leaf]

\* the calls of named_query_to_mir: every WHERE clause with and without
\* LIMIT; the query without WHERE clause, with and without the parameter b,
\* under every LIMIT; a disjunction with the parameter b; the query with an
\* alias and a literal, with no, one and two parameters; a query over the
\* unknown relation x
QueryRequests ==
    {Request(sq, qg, has_leaf) :
        sq \in {Select(<<>>), Select(Limit(10, 0))}, qg \in QueryGraphs,
        has_leaf \in BOOLEAN}
    \cup {Request(sq, QueryGraph(31, "t", <<>>, params), has_leaf) :
             sq \in QuerySelects, params \in {<<>>, <<tb>>}, has_leaf \in BOOLEAN}
    \cup {Request(Select(Limit(10, 0)),
                  QueryGraph(31, "t", <<Logical("Or", Comparison(tb, 1),
                                                Comparison(tb, 2))>>, <<tb>>),
                  has_leaf) : has_leaf \in BOOLEAN}
    \cup {Request(sq, AliasedGraph(47, "t", params), has_leaf) :
             sq \in {Select(<<>>), SelectOrdered(OrderBy(<< <<ta, "Asc">> >>),
                                                 Limit(10, 0))},
             params \in {<<>>, <<ta>>, <<tb, ta>>}, has_leaf \in BOOLEAN}
    \cup {Request(Select(<<>>), QueryGraph(31, "x", <<>>, <<>>), TRUE)}

\* the queries of StoreGraphs without LIMIT, and SELECT a FROM t LIMIT 5 with
\* and without an offset
StoreRequests ==
    {Request(Select(<<>>), qg, has_leaf) : qg \in StoreGraphs, has_leaf \in BOOLEAN}
    \cup {Request(Select(limit), QueryGraph(31, "t", <<>>, <<>>), TRUE) :
             limit \in {Limit(5, 0), Limit(5, 1)}}

ViewNames == {"t", "q", "q_1f_n0", "c_union"}

LeafNames == {"q", "r"}

QueryIndex == 1..Len(queries)

\* one or two of the queries returned so far
CompoundInputs ==
    {<<i>> : i \in QueryIndex} \cup {<<i, j>> : i \in QueryIndex, j \in QueryIndex}

CompoundLimits == {<<>>, Limit(10, 0), Limit(10, 1)}

----------------------------------------------------------------------------
(* Specifications *)

Init ==
    /\ schema_version = 0
    /\ current = EmptyMap
    /\ nodes = EmptyMap
    /\ base_schemas = EmptyMap
    /\ arena = <<>>
    /\ queries = <<>>
    /\ last = Call("default", NoneStr, <<>>, "ok", NoQuery, <<>>)
    /\ calls = 0

\* every driver operation, on one table
Next ==
    \/ \E q \in StoreQueries : CanCall(MaxCalls) /\ NamedBaseToMir("t", q, FALSE)
    \/ \E v \in 0..MaxVersion : CanCall(MaxCalls) /\ UpgradeSchema(v)
    \/ \E r \in StoreRequests :
          CanCall(MaxCalls) /\ NamedQueryToMir("q", r.sq, r.qg, r.has_leaf, Global)
    \/ \E i \in QueryIndex, name \in LeafNames, pc \in {<<>>, << <<ta>> >>, << <<tb>> >>} :
          CanCall(MaxCalls) /\ AddLeafBelow(queries[i].leaf, name, <<tb>>, pc)
    \/ \E sqs \in CompoundInputs, limit \in CompoundLimits, has_leaf \in BOOLEAN,
          op \in {"Union", "Except"} :
          CanCall(MaxCalls)
          /\ CompoundQueryToMir("c", [k \in 1..Len(sqs) |-> queries[sqs[k]]], op,
                                <<>>, limit, has_leaf)
    \/ \E view_name \in ViewNames : CanCall(MaxCalls) /\ GetView(view_name)

Spec == Init /\ [][Next]_vars

\* CREATE TABLE in every shape, schema upgrades, and one query over the table
NextBase ==
    \/ \E q \in BaseQueries : CanCall(MaxBaseCalls) /\ NamedBaseToMir("t", q, FALSE)
    \/ \E v \in 0..MaxVersion : CanCall(MaxBaseCalls) /\ UpgradeSchema(v)
    \/ CanCall(MaxBaseCalls)
       /\ NamedQueryToMir("q", Select(<<>>), QueryGraph(31, "t", <<>>, <<>>), TRUE, Global)

SpecBase == Init /\ [][NextBase]_vars

\* one table, schema upgrades, and SELECT queries in every shape
NextQuery ==
    \/ CanCall(MaxQueryCalls) /\ NamedBaseToMir("t", CreateTable("t", FieldsAB, <<>>), FALSE)
    \/ \E v \in 1..MaxVersion : CanCall(MaxQueryCalls) /\ UpgradeSchema(v)
    \/ \E r \in QueryRequests :
          CanCall(MaxQueryCalls) /\ NamedQueryToMir("q", r.sq, r.qg, r.has_leaf, Global)

SpecQuery == Init /\ [][NextQuery]_vars

\* one call of make_predicate_nodes on the arena, lines 983-1050, as the loop
\* of lines 1270-1297 makes it: the parent is the node the chain hangs off
ApplyPredicateNodes(name, parent, ce, nc) ==
    LET Apply(r) ==
            /\ arena' = IF r.ok THEN r.arena ELSE arena
            /\ last' = Call("make_predicate_nodes", name,
                            [parent |-> parent, ce |-> ce, nc |-> nc],
                            IF r.ok THEN "ok" ELSE "panic", NoQuery, r.nodes)
    IN /\ calls' = calls + 1
       /\ UNCHANGED <<schema_version, current, nodes, base_schemas, queries>>
       /\ Apply(MakePredicateNodes(arena, schema_version, name, parent, ce, nc))

PredicateLeaves == {Comparison(ta, 1), Comparison(tb, 2)}

\* the trees over a set of subtrees: a comparison, or And / Or of two subtrees
TreesOver(sub) ==
    PredicateLeaves \cup {Logical(op, l, r) : op \in {"And", "Or"}, l \in sub, r \in sub}

\* every tree of And, Or and comparisons with at most two levels of operators
PredicateTrees == TreesOver(TreesOver(PredicateLeaves))

MaxPredicateCalls == 2

\* one table, and predicate trees lowered over the last node made
NextPredicate ==
    \/ CanCall(MaxPredicateCalls)
       /\ arena = <<>>
       /\ NamedBaseToMir("t", CreateTable("t", FieldsAB, <<>>), FALSE)
    \/ \E ce \in PredicateTrees, nc \in 0..1 :
          /\ CanCall(MaxPredicateCalls)
          /\ arena # <<>>
          /\ ApplyPredicateNodes("p", Len(arena), ce, nc)

SpecPredicate == Init /\ [][NextPredicate]_vars

\* the ConditionTree of a join: left operator right
JoinPredicate(operator, left, right) ==
    [operator |-> operator, left |-> left, right |-> right]

\* SELECT t.a FROM t JOIN x ON t.a = x.a WHERE the predicates given; keys is
\* the order in which the relation map yields t and x
JoinGraph(hash, keys, t_predicates, x_predicates) ==
    [hash |-> hash,
     relations |-> [r \in {"t", "x"} |->
                       [predicates |-> IF r = "t" THEN t_predicates ELSE x_predicates]],
     keys |-> keys,
     edges |-> <<[left |-> "t", right |-> "x", kind |-> "Inner",
                  jp |-> JoinPredicate("Equal", Field(ta), Field(xa))]>>,
     columns |-> <<Data(ta)>>, parameters |-> <<>>]

JoinPredicatesT ==
    { <<>>, <<Comparison(tb, 1)>>,
      <<Logical("And", Comparison(ta, 1), Comparison(tb, 2))>> }

JoinPredicatesX ==
    { <<>>, <<Comparison(xc, 3)>>,
      <<Logical("Or", Comparison(xc, 3), Comparison(xc, 4))>> }

JoinGraphs ==
    {JoinGraph(58, keys, pt, px) :
        keys \in {<<"t", "x">>, <<"x", "t">>}, pt \in JoinPredicatesT,
        px \in JoinPredicatesX}

MaxNamingCalls == 4

\* two tables, and queries over their join
NextNaming ==
    \/ \E table \in {"t", "x"} :
          /\ CanCall(MaxNamingCalls)
          /\ table \notin DOMAIN current
          /\ NamedBaseToMir(table,
                            CreateTable(table,
                                        IF table = "t" THEN FieldsAB
                                        ELSE <<IntSpec(xa), IntSpec(xc)>>, <<>>),
                            FALSE)
    \/ \E qg \in JoinGraphs, has_leaf \in BOOLEAN :
          /\ CanCall(MaxNamingCalls)
          /\ {"t", "x"} \subseteq DOMAIN current
          /\ NamedQueryToMir("q", Select(<<>>), qg, has_leaf, Global)

SpecNaming == Init /\ [][NextNaming]_vars

\* one call of make_join_node on two nodes of the arena, lines 787-852
ApplyJoinNode(name, jp, left_node, right_node, kind) ==
    LET Apply(r) ==
            /\ arena' = IF r.ok THEN r.arena ELSE arena
            /\ last' = Call("make_join_node", name,
                            [jp |-> jp, left_node |-> left_node,
                             right_node |-> right_node, kind |-> kind],
                            IF r.ok THEN "ok" ELSE "panic", NoQuery, r.nodes)
    IN /\ calls' = calls + 1
       /\ UNCHANGED <<schema_version, current, nodes, base_schemas, queries>>
       /\ Apply(MakeJoinNode(arena, schema_version, name, jp, left_node, right_node,
                             kind))

\* t.a = x.a, t.a IN x.a, t.a > x.a, and a literal on either side
JoinPredicates ==
    {JoinPredicate(op, l, r) :
        op \in {"Equal", "In", "Greater"},
        l \in {Field(ta), Integer(1)}, r \in {Field(xa), Integer(1)}}

MaxJoinCalls == 3

\* two tables, and joins of any two nodes made so far
NextJoin ==
    \/ \E table \in {"t", "x"} :
          /\ CanCall(MaxJoinCalls)
          /\ table \notin DOMAIN current
          /\ NamedBaseToMir(table,
                            CreateTable(table,
                                        IF table = "t" THEN FieldsAB
                                        ELSE <<IntSpec(xa), IntSpec(xc)>>, <<>>),
                            FALSE)
    \/ \E jp \in JoinPredicates, kind \in {"Inner", "Left"},
          left_node \in 1..Len(arena), right_node \in 1..Len(arena) :
          /\ CanCall(MaxJoinCalls)
          /\ {"t", "x"} \subseteq DOMAIN current
          /\ ApplyJoinNode("j", jp, left_node, right_node, kind)

SpecJoin == Init /\ [][NextJoin]_vars

\* one call of to_conditions, lines 107-154; the query field of `last` holds
\* what the call leaves: the vector returned and the columns
ApplyToConditions(ct, columns, n) ==
    LET Apply(r) ==
            last' = Call("to_conditions", NoneStr,
                         [ct |-> ct, columns |-> columns, n |-> n],
                         IF r.ok THEN "ok" ELSE "panic",
                         [filters |-> r.filters, columns |-> r.columns], <<>>)
    IN /\ calls' = calls + 1
       /\ UNCHANGED <<schema_version, current, nodes, base_schemas, queries, arena>>
       /\ Apply(ToConditions(arena, ct, columns, n))

\* one call of make_filter_node, lines 657-675
ApplyFilterNode(name, parent, cond) ==
    LET Apply(r) ==
            /\ arena' = IF r.ok THEN r.arena ELSE arena
            /\ last' = Call("make_filter_node", name, [parent |-> parent, cond |-> cond],
                            IF r.ok THEN "ok" ELSE "panic", NoQuery, r.nodes)
    IN /\ calls' = calls + 1
       /\ UNCHANGED <<schema_version, current, nodes, base_schemas, queries>>
       /\ Apply(MakeFilterNode(arena, schema_version, name, parent, cond))

\* a = 1, b = 1, c = 1, b IN (1, 2), 1 = 1, a = a
Conditions ==
    {Comparison(c, 1) : c \in {ta, tb, tc}}
    \cup {[kind |-> "ComparisonOp", operator |-> "In", left |-> Field(tb),
           right |-> [kind |-> "LiteralList", values |-> <<1, 2>>]],
          [kind |-> "ComparisonOp", operator |-> "Equal", left |-> Integer(1),
           right |-> Integer(1)],
          [kind |-> "ComparisonOp", operator |-> "Equal", left |-> Field(ta),
           right |-> Field(ta)]}

\* the lists of at most two columns out of cs
ColumnLists(cs) ==
    {<<>>} \cup {<<cs[i]>> : i \in 1..Len(cs)}
           \cup {<<cs[i], cs[j]>> : i \in 1..Len(cs), j \in 1..Len(cs)}

MaxConditionCalls == 3

\* one table with the columns a and b; filters over any node made so far; and
\* to_conditions over the columns of a node, a part of them, or a column the
\* node does not have
NextConditions ==
    \/ /\ CanCall(MaxConditionCalls)
       /\ arena = <<>>
       /\ NamedBaseToMir("t", CreateTable("t", FieldsAB, <<>>), FALSE)
    \/ \E parent \in 1..Len(arena), cond \in Conditions :
          CanCall(MaxConditionCalls) /\ ApplyFilterNode("f", parent, cond)
    \/ \E n \in 1..Len(arena), ct \in Conditions :
          \E columns \in ColumnLists(arena[n].columns) \cup {arena[n].columns, <<ux>>} :
             CanCall(MaxConditionCalls) /\ ApplyToConditions(ct, columns, n)

SpecConditions == Init /\ [][NextConditions]_vars

\* one call of make_function_node, lines 677-712
ApplyFunctionNode(name, func_col, group_cols, parent) ==
    LET Apply(r) ==
            /\ arena' = IF r.ok THEN r.arena ELSE arena
            /\ last' = Call("make_function_node", name,
                            [func_col |-> func_col, group_cols |-> group_cols,
                             parent |-> parent],
                            IF r.ok THEN "ok" ELSE "panic", NoQuery, r.nodes)
    IN /\ calls' = calls + 1
       /\ UNCHANGED <<schema_version, current, nodes, base_schemas, queries>>
       /\ Apply(MakeFunctionNode(arena, schema_version, name, func_col, group_cols,
                                 parent))

\* the computed column of a function, with or without an alias; Avg stands
\* for the functions make_function_node has no arm for
FunctionColumn(kind, alias) ==
    [name |-> "fn", alias |-> alias, table |-> "t", function |-> kind]

FunctionColumns ==
    {FunctionColumn(kind, alias) :
        kind \in {"Sum", "Count", "CountStar", "Max", "Min", "GroupConcat", "Avg"},
        alias \in {NoneStr, "total"}}
    \cup {ta}

MaxFunctionCalls == 3

\* one table, and function nodes over the table or the last node made
NextFunction ==
    \/ /\ CanCall(MaxFunctionCalls)
       /\ arena = <<>>
       /\ NamedBaseToMir("t", CreateTable("t", FieldsAB, <<>>), FALSE)
    \/ \E func_col \in FunctionColumns, group_cols \in {<<>>, <<ta>>, <<tb, ta>>},
          parent \in {1, Len(arena)} :
          /\ CanCall(MaxFunctionCalls)
          /\ arena # <<>>
          /\ ApplyFunctionNode("g", func_col, group_cols, parent)

SpecFunction == Init /\ [][NextFunction]_vars

----------------------------------------------------------------------------
(* Properties of the store: schema_version, current, nodes, base_schemas *)

\* a step of the driver that called `op`
Step(op) == calls' = calls + 1 /\ last'.op = op

\* the versions under which a node named `name` is registered
VersionsOf(ns, name) == {k[2] : k \in {kk \in DOMAIN ns : kk[1] = name}}

Greatest(vs) == CHOOSE v \in vs : \A w \in vs : w <= v

\* C1: registration is idempotent: no driver operation replaces the node
\* registered under a (name, version) key that `nodes` already holds.
C1_RegistrationIdempotent ==
    [][\A k \in DOMAIN nodes : k \in DOMAIN nodes' /\ nodes'[k] = nodes[k]]_vars

\* C2: store consistency: every name that `current` maps to a version has a
\* node registered under (name, that version), so get_view never meets its
\* inconsistency panic.
C2_StoreConsistent ==
    /\ \A name \in DOMAIN current : <<name, current[name]>> \in DOMAIN nodes
    /\ last.op = "get_view" => last.args # "inconsistent"

\* a table and a query that are current at different versions
C2_Witness ==
    /\ last.result = "ok"
    /\ {"t", "q"} \subseteq DOMAIN current
    /\ current["t"] < current["q"]

\* C3: a successful named_base_to_mir(name, ...) leaves current[name] equal to
\* schema_version and a node registered under (name, schema_version).
C3_BaseIsCurrent ==
    (last.op = "named_base_to_mir" /\ last.result = "ok")
        => /\ last.name \in DOMAIN current
           /\ current[last.name] = schema_version
           /\ <<last.name, schema_version>> \in DOMAIN nodes

\* C4 as stated: get_view(name) returns a Reuse wrapper, stamped with
\* schema_version, over the node registered under the greatest version of
\* `name` in `nodes`, and fails exactly when no node of that name is registered.
C4_ViewOfGreatestVersion ==
    last.op = "get_view"
        => /\ last.result = "panic" <=> VersionsOf(nodes, last.name) = {}
           /\ last.result = "ok"
                => /\ arena[last.emitted[1]].from_version = schema_version
                   /\ arena[last.emitted[1]].inner =
                        [kind |-> "Reuse",
                         node |-> nodes[<<last.name,
                                          Greatest(VersionsOf(nodes, last.name))>>]]

\* C4, amended: get_view(name) returns a Reuse wrapper, stamped with
\* schema_version, over the node registered under (name, current[name]); it
\* fails exactly when `current` has no entry for name; it never changes
\* schema_version, current, nodes or base_schemas.
C4_ViewOfCurrentVersion ==
    [][Step("get_view")
         => /\ UNCHANGED store
            /\ last'.result = "panic" <=> last'.name \notin DOMAIN current
            /\ last'.result = "ok"
                 => /\ arena' = Append(arena, arena'[last'.emitted[1]])
                    /\ arena'[last'.emitted[1]].from_version = schema_version
                    /\ arena'[last'.emitted[1]].name = last'.name
                    /\ arena'[last'.emitted[1]].inner =
                         [kind |-> "Reuse",
                          node |-> nodes[<<last'.name, current[last'.name]>>]]]_vars

\* a view of a name whose current version is older than schema_version
C4_Witness ==
    /\ last.op = "get_view"
    /\ last.result = "ok"
    /\ current[last.name] < schema_version

\* C5: upgrade_schema(v) with v > schema_version sets schema_version to v and
\* changes nothing else; with v <= schema_version it fails and changes nothing;
\* no other operation changes schema_version, which never decreases.
C5_UpgradeMonotone ==
    [][/\ Step("upgrade_schema")
          => /\ UNCHANGED <<current, nodes, base_schemas, arena, queries>>
             /\ IF last'.args > schema_version
                THEN last'.result = "ok" /\ schema_version' = last'.args
                ELSE last'.result = "panic" /\ schema_version' = schema_version
       /\ ~Step("upgrade_schema") => schema_version' = schema_version
       /\ schema_version' >= schema_version]_vars

\* two upgrades in a row, each to a greater version
C5_Witness ==
    /\ last.op = "upgrade_schema"
    /\ last.result = "ok"
    /\ schema_version = 2
    /\ calls >= 2

----------------------------------------------------------------------------
(* Properties of make_base_node.  In a named_base_to_mir step, last'.name is
   the table, last'.args the CREATE TABLE statement and last'.query.leaf the
   node returned. *)

\* the index in s of the newest recorded schema: the greatest version, the
\* last recorded among equal versions
NewestIndex(s) ==
    CHOOSE i \in 1..Len(s) :
        \A j \in 1..Len(s) : s[j][1] < s[i][1] \/ (s[j][1] = s[i][1] /\ j <= i)

NewestVersion(bs, name) == bs[name][NewestIndex(bs[name])][1]

NewestSchema(bs, name) == bs[name][NewestIndex(bs[name])][2]

InBoth(schema, cols) == {cols[i] : i \in 1..Len(cols)} \cap {schema[i] : i \in 1..Len(schema)}

OnlyIn(cols, schema) == SelectSeq(cols, LAMBDA c : \A i \in 1..Len(schema) : schema[i] # c)

\* a step that creates table `last'.name`, of which schemas are recorded
BaseStepOnRecorded ==
    /\ Step("named_base_to_mir")
    /\ last'.name \in DOMAIN base_schemas

\* requested columns that differ from the newest schema by a simple change
SimpleChange(schema, cols) ==
    /\ schema # cols
    /\ InBoth(schema, cols) # {}
    /\ (OnlyIn(cols, schema) # <<>> \/ OnlyIn(schema, cols) # <<>>)

\* requested columns that differ from the newest schema by a complex change
ComplexChange(schema, cols) ==
    /\ schema # cols
    /\ \/ InBoth(schema, cols) = {}
       \/ OnlyIn(cols, schema) = <<>> /\ OnlyIn(schema, cols) = <<>>

\* the returned node is a new Reuse wrapper of node n, the only node allocated
ReturnsReuseOf(n) ==
    /\ last'.result = "ok"
    /\ last'.query.leaf = Len(arena) + 1
    /\ arena' = Append(arena, arena'[Len(arena) + 1])
    /\ arena'[Len(arena) + 1].from_version = schema_version
    /\ arena'[Len(arena) + 1].inner = [kind |-> "Reuse", node |-> n]

\* C6 as stated: whenever any recorded version of the table has the requested
\* column list, the call returns a Reuse of the node registered at such a
\* version, creates no Base and appends nothing to base_schemas, whatever the
\* newer recorded versions are.
C6_ReuseOfAnyVersion ==
    [][(BaseStepOnRecorded
        /\ \E i \in 1..Len(base_schemas[last'.name]) :
              base_schemas[last'.name][i][2] = last'.args.fields)
         => /\ base_schemas' = base_schemas
            /\ \E i \in 1..Len(base_schemas[last'.name]) :
                  /\ base_schemas[last'.name][i][2] = last'.args.fields
                  /\ <<last'.name, base_schemas[last'.name][i][1]>> \in DOMAIN nodes
                  /\ ReturnsReuseOf(nodes[<<last'.name,
                                           base_schemas[last'.name][i][1]>>])]_vars

\* C6, amended: the requested column list is compared with the newest recorded
\* schema only.  When they are equal the call returns a Reuse, stamped with
\* schema_version, of the node registered at (name, that version), creates no
\* Base and appends nothing to base_schemas; when they differ the call returns
\* no Reuse, whatever the older recorded versions are.
C6_ReuseOfNewestVersion ==
    [][BaseStepOnRecorded
         => IF NewestSchema(base_schemas, last'.name) = last'.args.fields
            THEN /\ base_schemas' = base_schemas
                 /\ ReturnsReuseOf(nodes[<<last'.name,
                                          NewestVersion(base_schemas, last'.name)>>])
            ELSE last'.result = "ok"
                   => arena'[last'.query.leaf].inner.kind = "Base"]_vars

\* the newest of two recorded schemas is requested again, at a later version
C6_Witness ==
    /\ last.op = "named_base_to_mir"
    /\ last.result = "ok"
    /\ arena[last.query.leaf].inner.kind = "Reuse"
    /\ Len(base_schemas["t"]) = 2
    /\ base_schemas["t"][1][2] # last.args.fields
    /\ base_schemas["t"][2][1] < schema_version

\* C7: when the requested columns differ from the newest recorded schema,
\* share a column with it, and some column is added or removed, the call
\* returns an adapted Base over the node registered at that version and appends
\* (schema_version, L) to base_schemas[name], L being the prior node's columns
\* with the added ones appended and the removed ones deleted.
C7_SimpleChangeAdapts ==
    [][(BaseStepOnRecorded
        /\ SimpleChange(NewestSchema(base_schemas, last'.name), last'.args.fields))
         => LET prior == nodes[<<last'.name, NewestVersion(base_schemas, last'.name)>>]
                added == OnlyIn(last'.args.fields, NewestSchema(base_schemas, last'.name))
                removed == OnlyIn(NewestSchema(base_schemas, last'.name), last'.args.fields)
            IN /\ last'.result = "ok"
               /\ arena[prior].inner.kind = "Base"
               /\ arena'[last'.query.leaf].inner.kind = "Base"
               /\ arena'[last'.query.leaf].inner.adapted_over =
                    <<[over |-> prior, columns_added |-> added,
                       columns_removed |-> removed]>>
               /\ base_schemas' =
                    [base_schemas EXCEPT ![last'.name] =
                        Append(@, <<schema_version,
                                    OnlyIn(arena[prior].inner.column_specs \o added,
                                           removed)>>)]]_vars

\* C8: when the requested column list differs from the newest recorded schema
\* and either shares no column with it or has the same columns in another
\* order, a well-formed definition (every column of the table itself, at most
\* one PRIMARY KEY) makes a new Base with no adapted_over and no ancestors,
\* whose columns are the requested ones in input order, and (schema_version,
\* requested columns) is appended to base_schemas[name].
C8_ComplexChangeIsFresh ==
    [][(BaseStepOnRecorded
        /\ ComplexChange(NewestSchema(base_schemas, last'.name), last'.args.fields)
        /\ \A i \in 1..Len(last'.args.fields) :
              last'.args.fields[i].column.table = last'.name
        /\ Len(PrimaryKeys(last'.args.keys)) <= 1)
         => /\ last'.result = "ok"
            /\ last'.query.leaf = Len(arena) + 1
            /\ Len(arena') = Len(arena) + 1
            /\ arena'[Len(arena) + 1].name = last'.name
            /\ arena'[Len(arena) + 1].from_version = schema_version
            /\ arena'[Len(arena) + 1].inner.kind = "Base"
            /\ arena'[Len(arena) + 1].inner.adapted_over = <<>>
            /\ arena'[Len(arena) + 1].inner.column_specs = last'.args.fields
            /\ arena'[Len(arena) + 1].ancestors = <<>>
            /\ arena'[Len(arena) + 1].columns = Columns(last'.args.fields)
            /\ base_schemas' =
                 [base_schemas EXCEPT ![last'.name] =
                     Append(@, <<schema_version, last'.args.fields>>)]]_vars

\* the columns of the recorded schema come back in another order
C8_Witness ==
    /\ last.op = "named_base_to_mir"
    /\ last.result = "ok"
    /\ last.args.fields = FieldsBA
    /\ Len(base_schemas["t"]) = 2
    /\ base_schemas["t"][1][2] = FieldsAB
    /\ base_schemas["t"][2] = <<schema_version, FieldsBA>>
    /\ arena[last.query.leaf].inner.kind = "Base"

\* C9 as stated: a table definition whose primary key spans more than one
\* column is rejected, and every Base has a key list of at most one column.
C9_MultiColumnKeyRejected ==
    /\ (last.op = "named_base_to_mir"
        /\ \E i \in 1..Len(PrimaryKeys(last.args.keys)) :
              Len(PrimaryKeys(last.args.keys)[i].columns) > 1)
         => last.result = "panic"
    /\ \A n \in 1..Len(arena) :
          arena[n].inner.kind = "Base" => Len(arena[n].inner.keys) <= 1

\* no schema of the table is recorded, or the newest differs by a complex change
TakesFreshPath ==
    \/ last'.name \notin DOMAIN base_schemas
    \/ /\ last'.name \in DOMAIN base_schemas
       /\ ComplexChange(NewestSchema(base_schemas, last'.name), last'.args.fields)

\* C9, amended: what is rejected is more than one PRIMARY KEY constraint, and
\* only where a new Base is made: a definition with several PRIMARY KEY
\* constraints that is not a reuse or an adaptation of the newest recorded
\* schema fails, allocating no node and changing neither nodes, current nor
\* base_schemas.  A new Base carries the columns of the single PRIMARY KEY
\* constraint, however many they are, or no key.
C9_SeveralPrimaryKeysRejected ==
    [][(Step("named_base_to_mir") /\ last'.args.kind = "CreateTable")
         => /\ (TakesFreshPath /\ Len(PrimaryKeys(last'.args.keys)) > 1)
                 => /\ last'.result = "panic"
                    /\ UNCHANGED <<store, arena>>
            /\ (TakesFreshPath /\ last'.result = "ok")
                 => /\ arena'[last'.query.leaf].inner.kind = "Base"
                    /\ arena'[last'.query.leaf].inner.keys =
                         IF PrimaryKeys(last'.args.keys) = <<>> THEN <<>>
                         ELSE PrimaryKeys(last'.args.keys)[1].columns]_vars

\* a Base keyed by the two columns of its one PRIMARY KEY
C9_Witness ==
    /\ last.op = "named_base_to_mir"
    /\ last.result = "ok"
    /\ arena[last.query.leaf].inner.kind = "Base"
    /\ arena[last.query.leaf].inner.keys = <<ta, tb>>

----------------------------------------------------------------------------
(* Properties of named_query_to_mir.  In such a step last'.emitted are the
   nodes make_nodes_for_selection returned and last'.query the MirQuery. *)

\* the nodes reached from the nodes of `seen` by child links
RECURSIVE Descendants(_, _)
Descendants(a, seen) ==
    IF \A n \in seen : \A i \in 1..Len(a[n].children) : a[n].children[i] \in seen
    THEN seen
    ELSE Descendants(a, seen \cup UNION {{a[n].children[i] : i \in 1..Len(a[n].children)}
                                           : n \in seen})

Childless(a, emitted) == {i \in 1..Len(emitted) : a[emitted[i]].children = <<>>}

\* q is a MirQuery over the emitted nodes with one leaf
OneLeafQuery(a, emitted, q) ==
    /\ Cardinality(Childless(a, emitted)) = 1
    /\ \A i \in Childless(a, emitted) : q.leaf = emitted[i]
    /\ q.roots = SelectSeq(emitted, LAMBDA n : a[n].ancestors = <<>>)
    /\ q.roots # <<>>
    /\ \A i \in 1..Len(q.roots) : q.leaf \in Descendants(a, {q.roots[i]})

\* C10: named_query_to_mir returns a MirQuery with exactly one leaf: exactly
\* one emitted node has no children (the call fails otherwise), it is the leaf
\* returned, the roots returned are the emitted nodes without ancestors, every
\* root reaches the leaf by child links, and current[leaf.name] is
\* schema_version.
C10_OneLeaf ==
    [][Step("named_query_to_mir")
         => /\ (last'.emitted # <<>>
                /\ Cardinality(Childless(arena', last'.emitted)) # 1)
                 => last'.result = "panic"
            /\ last'.result = "ok"
                 => /\ OneLeafQuery(arena', last'.emitted, last'.query)
                    /\ arena'[last'.query.leaf].name \in DOMAIN current'
                    /\ current'[arena'[last'.query.leaf].name] = schema_version']_vars

\* a query with a disjunction and a LIMIT below a Leaf, at a later version
C10_Witness ==
    /\ last.op = "named_query_to_mir"
    /\ last.result = "ok"
    /\ schema_version > 0
    /\ \E i \in 1..Len(last.emitted) : arena[last.emitted[i]].inner.kind = "Union"
    /\ \E i \in 1..Len(last.emitted) : arena[last.emitted[i]].inner.kind = "TopK"
    /\ arena[last.query.leaf].inner.kind = "Leaf"

----------------------------------------------------------------------------
(* Properties of make_nodes_for_selection.  After a named_query_to_mir call
   last.args holds the statement (sq), the query graph (qg) and has_leaf, and
   last.emitted the nodes in the order they were returned. *)

QueryDone == last.op = "named_query_to_mir" /\ last.result = "ok"

NoPredicates(qg) == \A r \in DOMAIN qg.relations : qg.relations[r].predicates = <<>>

KindOf(n) == arena[n].inner.kind

\* node n is a Reuse of a Base
\* the node that a chain of Reuse wrappers stands for
RECURSIVE ReusedNode(_)
ReusedNode(n) == IF KindOf(n) = "Reuse" THEN ReusedNode(arena[n].inner.node) ELSE n

\* a Reuse of a Base, or of the Reuse that a repeated CREATE TABLE registered
\* for the Base at a later version
IsBaseReuse(n) == KindOf(n) = "Reuse" /\ KindOf(ReusedNode(n)) = "Base"

\* SELECT ... ORDER BY ... LIMIT k over one base, no predicates, with a Leaf
LimitQueryDone ==
    /\ QueryDone
    /\ last.args.has_leaf
    /\ last.args.sq.limit # <<>>
    /\ last.args.sq.order # <<>>
    /\ NoPredicates(last.args.qg)

\* the TopK that the statement and the parameters of the query ask for
IsTopKOf(n, sq, qg) ==
    /\ KindOf(n) = "TopK"
    /\ arena[n].inner.k = sq.limit[1].limit
    /\ arena[n].inner.group_by = qg.parameters
    /\ arena[n].inner.order = <<sq.order[1].columns>>
    /\ arena[n].inner.offset = 0

\* C11 as stated: the chain of a LIMIT query is Base -> Project -> TopK ->
\* Leaf: the TopK's ancestor is the Project, the Leaf's ancestor is the TopK.
C11_ProjectThenTopK ==
    LimitQueryDone
        => \E i, j, k \in 1..Len(last.emitted) :
              /\ KindOf(last.emitted[i]) = "Project"
              /\ IsTopKOf(last.emitted[j], last.args.sq, last.args.qg)
              /\ KindOf(last.emitted[k]) = "Leaf"
              /\ arena[last.emitted[j]].ancestors = <<last.emitted[i]>>
              /\ arena[last.emitted[k]].ancestors = <<last.emitted[j]>>

\* C11, amended: the chain of a LIMIT query is Base -> TopK -> Project ->
\* Leaf: four nodes are emitted, a Reuse of the Base, the TopK{k, group_by =
\* parameters, order = ORDER BY columns, offset = 0} whose ancestor is that
\* Reuse, the Project whose ancestor is the TopK, and the Leaf whose ancestor
\* is the Project.
C11_TopKThenProject ==
    LimitQueryDone
        => /\ Len(last.emitted) = 4
           /\ IsBaseReuse(last.emitted[1])
           /\ arena[last.emitted[1]].ancestors = <<>>
           /\ IsTopKOf(last.emitted[2], last.args.sq, last.args.qg)
           /\ arena[last.emitted[2]].ancestors = <<last.emitted[1]>>
           /\ KindOf(last.emitted[3]) = "Project"
           /\ arena[last.emitted[3]].ancestors = <<last.emitted[2]>>
           /\ KindOf(last.emitted[4]) = "Leaf"
           /\ arena[last.emitted[4]].ancestors = <<last.emitted[3]>>
           /\ arena[last.emitted[4]].inner.node = last.emitted[3]
           /\ last.query.leaf = last.emitted[4]

\* such a query with a parameter, which the TopK groups by
C11_Witness ==
    /\ LimitQueryDone
    /\ last.args.qg.parameters = <<tb>>
    /\ arena[last.emitted[2]].inner.order = << << <<ta, "Asc">> >> >>

\* SELECT over one base with no LIMIT and no predicates
MinimalQueryDone ==
    /\ QueryDone
    /\ last.args.sq.limit = <<>>
    /\ NoPredicates(last.args.qg)
    /\ Cardinality(DOMAIN last.args.qg.relations) = 1

\* the node that `current` names for the one relation of the query graph
CurrentOf(qg) ==
    nodes[<<CHOOSE r \in DOMAIN qg.relations : TRUE,
            current[CHOOSE r \in DOMAIN qg.relations : TRUE]>>]

\* C12: a SELECT over one base with no LIMIT, no aggregates and no predicates
\* emits exactly a Reuse of the registered Base, one Project whose only
\* ancestor is that Reuse and, iff has_leaf, one Leaf named `name` whose only
\* ancestor is the Project; without has_leaf the Project is named `name` and
\* is the leaf of the query.
C12_MinimalShape ==
    MinimalQueryDone
        => /\ Len(last.emitted) = IF last.args.has_leaf THEN 3 ELSE 2
           /\ KindOf(last.emitted[1]) = "Reuse"
           /\ arena[last.emitted[1]].inner.node = CurrentOf(last.args.qg)
           /\ KindOf(ReusedNode(CurrentOf(last.args.qg))) = "Base"
           /\ arena[last.emitted[1]].ancestors = <<>>
           /\ KindOf(last.emitted[2]) = "Project"
           /\ arena[last.emitted[2]].ancestors = <<last.emitted[1]>>
           /\ IF last.args.has_leaf
              THEN /\ KindOf(last.emitted[3]) = "Leaf"
                   /\ arena[last.emitted[3]].name = last.name
                   /\ arena[last.emitted[3]].ancestors = <<last.emitted[2]>>
                   /\ arena[last.emitted[2]].name # last.name
                   /\ last.query.leaf = last.emitted[3]
              ELSE /\ arena[last.emitted[2]].name = last.name
                   /\ last.query.leaf = last.emitted[2]
           /\ last.query.roots = <<last.emitted[1]>>

\* the minimal query with a Leaf, lowered after a schema upgrade
C12_Witness ==
    /\ MinimalQueryDone
    /\ last.args.has_leaf
    /\ schema_version > 0
    /\ arena[last.emitted[3]].from_version = schema_version

\* the (name, value) pairs of the literal output columns of the query graph
DeclaredLiterals(qg) ==
    LET li == SelectSeq(qg.columns, LAMBDA oc : oc.kind = "Literal")
    IN [i \in 1..Len(li) |-> <<li[i].name, li[i].value>>]

InSeq(s, x) == \E i \in 1..Len(s) : s[i] = x

Bogokey(table) ==
    [name |-> "bogokey", alias |-> NoneStr, table |-> table, function |-> NoneStr]

\* proj is the Project of the query and, with has_leaf, leaf the Leaf over it
LeafKeysChosen(proj, leaf, qg, has_leaf) ==
    /\ KindOf(proj) = "Project"
    /\ IF has_leaf /\ qg.parameters = <<>>
       THEN /\ arena[proj].inner.literals = Append(DeclaredLiterals(qg), <<"bogokey", 0>>)
            /\ arena[leaf].inner.keys = <<Bogokey(arena[proj].name)>>
       ELSE arena[proj].inner.literals = DeclaredLiterals(qg)
    /\ (has_leaf /\ qg.parameters # <<>>)
         => /\ \A i \in 1..Len(qg.parameters) :
                  InSeq(arena[proj].inner.emit, qg.parameters[i])
            /\ arena[leaf].inner.keys = qg.parameters
    /\ has_leaf
         => /\ KindOf(leaf) = "Leaf"
            /\ arena[leaf].inner.node = proj
            /\ \A i \in 1..Len(arena[leaf].inner.keys) :
                  InSeq(arena[proj].columns, arena[leaf].inner.keys[i])

\* C13: with has_leaf and no parameters the Project gets the extra literal
\* ("bogokey", 0) and the Leaf's keys are [bogokey]; with has_leaf and
\* parameters no bogokey is added, every parameter is among the Project's
\* emitted columns and the Leaf's keys are the parameters in order; without
\* has_leaf no bogokey is added.  Every Leaf key is an output column of the
\* Project the Leaf reads from.
C13_LeafKeys ==
    QueryDone
        => IF last.args.has_leaf
           THEN LeafKeysChosen(last.emitted[Len(last.emitted) - 1],
                               last.emitted[Len(last.emitted)],
                               last.args.qg, TRUE)
           ELSE LeafKeysChosen(last.emitted[Len(last.emitted)],
                               last.emitted[Len(last.emitted)],
                               last.args.qg, FALSE)

\* two parameters, one of them the column that is projected under an alias
C13_Witness ==
    /\ QueryDone
    /\ last.args.has_leaf
    /\ last.args.qg.parameters = <<tb, ta>>
    /\ last.args.qg.columns[1].column.alias = "x"
    /\ Len(arena[last.emitted[Len(last.emitted) - 1]].columns) = 4

----------------------------------------------------------------------------
(* Properties of compound_query_to_mir.  In such a step last'.args holds the
   child queries (sqs), the operator, the LIMIT and has_leaf. *)

\* the roots of the queries of sqs, one query after the other
RECURSIVE AllRoots(_)
AllRoots(sqs) ==
    IF sqs = <<>> THEN <<>>
    ELSE AllRoots(SubSeq(sqs, 1, Len(sqs) - 1)) \o sqs[Len(sqs)].roots

\* what makes compound_query_to_mir fail
CompoundIsFatal(args) ==
    \/ args.op # "Union"
    \/ Len(args.sqs) < 2
    \/ args.limit # <<>> /\ args.limit[1].offset # 0

\* the nodes `emitted` in arena a are the Union, the TopK and the Leaf that
\* the arguments ask for under the names claimed, and q is the query returned
CompoundShape(a, emitted, name, args, q) ==
    /\ Len(emitted) = 1 + (IF args.limit # <<>> THEN 1 ELSE 0)
                        + (IF args.has_leaf THEN 1 ELSE 0)
    /\ a[emitted[1]].inner.kind = "Union"
    /\ a[emitted[1]].ancestors = [i \in 1..Len(args.sqs) |-> args.sqs[i].leaf]
    /\ a[emitted[1]].name = IF ~args.has_leaf /\ args.limit = <<>>
                            THEN name ELSE name \o "_union"
    /\ args.limit # <<>>
         => /\ a[emitted[2]].inner.kind = "TopK"
            /\ a[emitted[2]].ancestors = <<emitted[1]>>
            /\ a[emitted[2]].inner.k = args.limit[1].limit
            /\ a[emitted[2]].name = IF ~args.has_leaf THEN name ELSE name \o "_topk"
    /\ args.has_leaf
         => /\ a[emitted[Len(emitted)]].inner.kind = "Leaf"
            /\ a[emitted[Len(emitted)]].inner.keys = <<>>
            /\ a[emitted[Len(emitted)]].inner.node = emitted[Len(emitted) - 1]
            /\ a[emitted[Len(emitted)]].ancestors = <<emitted[Len(emitted) - 1]>>
    /\ q.leaf = emitted[Len(emitted)]
    /\ a[q.leaf].name = name
    /\ a[q.leaf].children = <<>>
    /\ q.name = name
    /\ q.roots = AllRoots(args.sqs)

\* C14: compound_query_to_mir emits a Union over the leaves of the child
\* queries, named `name` iff neither a Leaf nor a LIMIT is asked for and
\* {name}_union otherwise; with a LIMIT a TopK on it, named `name` iff
\* has_leaf is false and {name}_topk otherwise; with has_leaf a Leaf named
\* `name` with no keys on top.  The leaf returned is the topmost node and is
\* named `name`, current[name] = schema_version, the roots returned are the
\* roots of the children in order.  Another operator than Union, fewer than
\* two children (and a LIMIT with an offset) are fatal.
C14_CompoundShape ==
    [][Step("compound_query_to_mir")
         => /\ last'.result = "panic" <=> CompoundIsFatal(last'.args)
            /\ last'.result = "ok"
                 => /\ CompoundShape(arena', last'.emitted, last'.name, last'.args,
                                     last'.query)
                    /\ Len(arena') = Len(arena) + Len(last'.emitted)
                    /\ last'.name \in DOMAIN current'
                    /\ current'[last'.name] = schema_version
                    /\ <<last'.name, schema_version>> \in DOMAIN nodes']_vars

\* the union of a table and a query over it, with LIMIT and Leaf
C14_Witness ==
    /\ last.op = "compound_query_to_mir"
    /\ last.result = "ok"
    /\ last.args.has_leaf
    /\ last.args.limit # <<>>
    /\ Len(last.query.roots) = 2
    /\ last.query.roots[1] # last.query.roots[2]

----------------------------------------------------------------------------
(* Properties of add_leaf_below.  In such a step last'.args holds prior_leaf,
   params and project_columns (empty when absent). *)

\* in arena a, r is a Reuse of prior_leaf, n the node asked for on top of r
\* and l a Leaf named name with keys params on top of n
LeafBelowShape(a, r, n, l, name, args) ==
    /\ a[r].inner.kind = "Reuse"
    /\ a[r].inner.node = args.prior_leaf
    /\ a[n].ancestors = <<r>>
    /\ args.project_columns # <<>>
         => /\ a[n].name = name \o "_reproject"
            /\ a[n].inner.kind = "Project"
            /\ a[n].columns = args.project_columns[1] \o args.params
            /\ a[n].inner.emit = args.project_columns[1] \o args.params
    /\ args.project_columns = <<>>
         => /\ a[n].name = name \o "_id"
            /\ a[n].inner.kind = "Identity"
            /\ a[n].columns = a[args.prior_leaf].columns
    /\ a[l].name = name
    /\ a[l].inner.kind = "Leaf"
    /\ a[l].inner.keys = args.params
    /\ a[l].ancestors = <<n>>
    /\ a[n].children = <<l>>

\* C15: add_leaf_below emits a Project named {name}_reproject whose columns
\* and emit list are project_columns followed by params when project_columns
\* is given, and an Identity named {name}_id with the prior leaf's columns when
\* it is not; the only ancestor of that node is a Reuse of prior_leaf, a Leaf
\* named `name` with keys = params is on top of it, (name, schema_version)
\* is registered as that Leaf, current[name] = schema_version, and the query
\* returned has that Reuse as its only root and the new Leaf as its leaf.
C15_LeafBelow ==
    [][Step("add_leaf_below")
         => /\ last'.result = "ok"
            /\ Len(last'.emitted) = 3
            /\ Len(arena') = Len(arena) + 3
            /\ LeafBelowShape(arena', last'.emitted[1], last'.emitted[2],
                              last'.emitted[3], last'.name, last'.args)
            /\ <<last'.name, schema_version>> \in DOMAIN nodes'
            /\ nodes'[<<last'.name, schema_version>>] = last'.emitted[3]
            /\ last'.name \in DOMAIN current'
            /\ current'[last'.name] = schema_version
            /\ last'.query.name = last'.name
            /\ last'.query.roots = <<last'.emitted[1]>>
            /\ last'.query.leaf = last'.emitted[3]]_vars

\* a re-projection of column a with parameter b below a Leaf
C15_Witness ==
    /\ last.op = "add_leaf_below"
    /\ last.args.project_columns # <<>>
    /\ arena[last.args.prior_leaf].inner.kind = "Leaf"
    /\ arena[last.emitted[2]].columns = <<ta, tb>>

----------------------------------------------------------------------------
(* Properties of make_predicate_nodes.  After such a call last.args holds the
   parent, the predicate tree (ce) and the counter (nc), last.emitted the
   nodes returned. *)

PredicateDone == last.op = "make_predicate_nodes" /\ last.result = "ok"

\* the number of nodes a predicate tree asks for: a filter for each
\* comparison and a union for each Or
RECURSIVE NodeCount(_)
NodeCount(ce) ==
    IF ce.kind = "ComparisonOp" THEN 1
    ELSE NodeCount(ce.left) + NodeCount(ce.right)
         + (IF ce.operator = "Or" THEN 1 ELSE 0)

\* emitted is a left chain of `left` nodes and a right chain, both hanging
\* off parent, and a Union of the ends of the two with the parent's columns
OrShape(a, emitted, parent, left) ==
    /\ a[emitted[1]].ancestors = <<parent>>
    /\ a[emitted[left + 1]].ancestors = <<parent>>
    /\ a[emitted[Len(emitted)]].inner.kind = "Union"
    /\ a[emitted[Len(emitted)]].ancestors = <<emitted[left], emitted[Len(emitted) - 1]>>
    /\ a[emitted[Len(emitted)]].columns = a[parent].columns
    /\ a[emitted[Len(emitted)]].inner.emit = <<a[parent].columns, a[parent].columns>>
    /\ \A i \in 1..(Len(emitted) - 1) : emitted[i] < emitted[i + 1]

\* C16: for Or(left, right) make_predicate_nodes returns the left chain, the
\* right chain and a Union, in this order; both chains start from the parent
\* given, the Union has exactly two ancestors, the end of the left chain and
\* the end of the right chain, and its columns and both its emit lists are
\* the parent's columns.
C16_OrLowering ==
    (PredicateDone /\ last.args.ce.kind = "LogicalOp" /\ last.args.ce.operator = "Or")
        => /\ Len(last.emitted) = NodeCount(last.args.ce)
           /\ Len(last.emitted) = NodeCount(last.args.ce.left)
                                  + NodeCount(last.args.ce.right) + 1
           /\ OrShape(arena, last.emitted, last.args.parent,
                      NodeCount(last.args.ce.left))

\* an Or of two chains of two filters each, over the base
C16_Witness ==
    /\ PredicateDone
    /\ last.args.ce = Logical("Or", Logical("And", Comparison(ta, 1), Comparison(tb, 2)),
                                    Logical("And", Comparison(tb, 2), Comparison(ta, 1)))
    /\ arena[last.args.parent].inner.kind = "Base"
    /\ Len(last.emitted) = 5

RECURSIVE AndOnly(_)
AndOnly(ce) ==
    \/ ce.kind = "ComparisonOp"
    \/ ce.kind = "LogicalOp" /\ ce.operator = "And" /\ AndOnly(ce.left) /\ AndOnly(ce.right)

\* the comparisons of a tree from left to right
RECURSIVE LeavesInOrder(_)
LeavesInOrder(ce) ==
    IF ce.kind = "ComparisonOp" THEN <<ce>>
    ELSE LeavesInOrder(ce.left) \o LeavesInOrder(ce.right)

\* emitted is a chain of filters off parent, one for each comparison of
\* leaves in order, numbered from nc
FilterChain(a, emitted, name, parent, leaves, nc) ==
    /\ Len(emitted) = Len(leaves)
    /\ \A i \in 1..Len(emitted) :
         /\ a[emitted[i]].inner.kind = "Filter"
         /\ a[emitted[i]].ancestors = <<IF i = 1 THEN parent ELSE emitted[i - 1]>>
         /\ a[emitted[i]].name = name \o "_f" \o ToString(nc + i - 1)
         /\ InSeq(a[emitted[i]].inner.conditions, <<FilterConditionOf(leaves[i])>>)
         /\ i < Len(emitted) => a[emitted[i]].children = <<emitted[i + 1]>>
    /\ a[emitted[Len(emitted)]].children = <<>>

\* C17: for a tree of And and comparisons only make_predicate_nodes returns a
\* linear chain of Filter nodes, one for each comparison: the only ancestor of
\* the first is the parent, the only ancestor of each later one the filter
\* before it, the i-th (from 0, in left-to-right order of the comparisons) is
\* named {name}_f{nc+i}, and the last is the end of the chain.
C17_AndLowering ==
    (last.op = "make_predicate_nodes" /\ AndOnly(last.args.ce))
        => /\ last.result = "ok"
           /\ FilterChain(arena, last.emitted, last.name, last.args.parent,
                          LeavesInOrder(last.args.ce), last.args.nc)

\* four comparisons under three Ands, numbered from 1
C17_Witness ==
    /\ PredicateDone
    /\ AndOnly(last.args.ce)
    /\ last.args.nc = 1
    /\ Len(last.emitted) = 4
    /\ arena[last.emitted[4]].name = "p_f4"

----------------------------------------------------------------------------
(* Properties of Union nodes *)

\* in arena a, node n has two ancestors or more, one emit list for each, and
\* every emit list is as long as the list of its columns
UnionWellFormed(a, n) ==
    /\ Len(a[n].ancestors) >= 2
    /\ Len(a[n].inner.emit) = Len(a[n].ancestors)
    /\ \A i \in 1..Len(a[n].inner.emit) : Len(a[n].inner.emit[i]) = Len(a[n].columns)

\* the names that occur among the columns of every node of ns
CommonNames(a, ns) ==
    {c \in NamesOf(a[ns[1]].columns) :
        \A i \in 1..Len(ns) : c \in NamesOf(a[ns[i]].columns)}

FirstNamed(columns, name) ==
    CHOOSE i \in 1..Len(columns) :
        /\ columns[i].name = name
        /\ \A j \in 1..(i - 1) : columns[j].name # name

\* e holds, in the order of columns, the first column of each name of common
FirstOfEachName(e, columns, common) ==
    /\ Len(e) = Cardinality(common)
    /\ NamesOf(e) = common
    /\ \A k \in 1..Len(e) : e[k] = columns[FirstNamed(columns, e[k].name)]
    /\ \A k \in 1..Len(e), l \in 1..Len(e) :
         k < l => FirstNamed(columns, e[k].name) < FirstNamed(columns, e[l].name)

\* in arena a, the Union n emits of each ancestor the columns whose name all
\* ancestors have, once each
UnionOfCommonColumns(a, n) ==
    /\ a[n].inner.kind = "Union"
    /\ a[n].columns = a[n].inner.emit[1]
    /\ \A i \in 1..Len(a[n].ancestors) :
         FirstOfEachName(a[n].inner.emit[i], a[a[n].ancestors[i]].columns,
                         CommonNames(a, a[n].ancestors))

\* C18: every Union node, of make_union_node and of make_union_from_same_base,
\* has at least two ancestors, one emit list for each ancestor, and emit lists
\* all as long as its list of output columns; make_union_node fails on fewer
\* than two ancestors and on nothing else, and the columns it emits are those
\* whose name occurs in every ancestor, each name once.
C18_UnionWellFormed ==
    [][/\ \A n \in 1..Len(arena') :
            arena'[n].inner.kind = "Union" => UnionWellFormed(arena', n)
       /\ (Step("compound_query_to_mir") /\ last'.args.op = "Union")
            => /\ Len(last'.args.sqs) < 2 <=> Len(arena') = Len(arena)
               /\ Len(arena') > Len(arena)
                    => UnionOfCommonColumns(arena', Len(arena) + 1)]_vars

\* a union of a table and a leaf with two columns of one name, which emits
\* one column
C18_Witness ==
    /\ last.op = "compound_query_to_mir"
    /\ last.result = "ok"
    /\ Len(arena[last.emitted[1]].columns) = 1
    /\ \E i \in 1..2 : Len(arena[arena[last.emitted[1]].ancestors[i]].columns) = 2
    /\ \E i \in 1..2 :
         LET c == arena[arena[last.emitted[1]].ancestors[i]].columns
         IN Len(c) = 2 /\ c[1].name = c[2].name

----------------------------------------------------------------------------
(* Names of the nodes of one predicate *)

NamesDistinct(a, ns) ==
    \A i \in 1..Len(ns), j \in 1..Len(ns) : i # j => a[ns[i]].name # a[ns[j]].name

RECURSIVE OrCount(_)
OrCount(ce) ==
    IF ce.kind = "ComparisonOp" THEN 0
    ELSE OrCount(ce.left) + OrCount(ce.right) + (IF ce.operator = "Or" THEN 1 ELSE 0)

\* C19: the nodes returned by one make_predicate_nodes call have pairwise
\* distinct names, for every tree of And, Or and comparisons, nested Or
\* included.
C19_NamesDistinct ==
    PredicateDone => NamesDistinct(arena, last.emitted)

\* the names are distinct when the tree has one Or at most: the filters are
\* numbered apart, the Union of every Or is named {name}_un
C19_NamesDistinctUpToOneOr ==
    PredicateDone => (NamesDistinct(arena, last.emitted) <=> OrCount(last.args.ce) <= 1)

----------------------------------------------------------------------------
(* Names of the nodes of one query *)

NamesOfNodes(a, ns) == [i \in 1..Len(ns) |-> a[ns[i]].name]

\* every order in which the map of relations may yield the names of keys
KeyOrders(keys) ==
    {[i \in 1..Len(keys) |-> keys[p[i]]] : p \in Permutations(1..Len(keys))}

NamesOfResult(r) == IF r.ok THEN NamesOfNodes(r.arena, r.nodes) ELSE <<NoneStr>>

\* the names make_nodes_for_selection gives its nodes when the map of
\* relations yields its names in the order keys
SelectionNames(a, cur, ns, sv, name, args, keys) ==
    NamesOfResult(MakeNodesForSelection(a, cur, ns, sv, name, args.sq,
                                        [args.qg EXCEPT !.keys = keys],
                                        args.has_leaf, args.universe))

\* the number of nodes the predicates of a relation ask for
RECURSIVE NodeCountAll(_)
NodeCountAll(preds) ==
    IF preds = <<>> THEN 0 ELSE NodeCount(Head(preds)) + NodeCountAll(Tail(preds))

\* the names of a query over t joined with x: the bases in the order of their
\* names, and the counter in the names moved on by the nodes made before
CountedNames(names, qg, has_leaf) ==
    /\ SubSeq(names, 1, 2) = <<"t", "x">>
    /\ names[3] = "q_" \o Hex(qg.hash) \o "_n0"
    /\ qg.relations["t"].predicates # <<>>
         => names[4] = "q_" \o Hex(qg.hash) \o "_n1_p0_f0"
    /\ qg.relations["x"].predicates # <<>>
         => names[4 + NodeCountAll(qg.relations["t"].predicates)]
              = "q_" \o Hex(qg.hash) \o "_n"
                  \o ToString(1 + NodeCountAll(qg.relations["t"].predicates))
                  \o "_p0_f0"
    /\ has_leaf
         => names[Len(names) - 1]
              = "q_" \o Hex(qg.hash) \o "_n"
                  \o ToString(1 + NodeCountAll(qg.relations["t"].predicates)
                                + NodeCountAll(qg.relations["x"].predicates))

\* C20: the names of the nodes named_query_to_mir emits do not depend on the
\* order in which the query graph's map of relations yields the relations:
\* they are visited in the order of their names, and the counter in the names
\* moves on by the number of nodes made at each step.
C20_NamesIndependentOfMapOrder ==
    [][Step("named_query_to_mir")
         => /\ \A k \in KeyOrders(last'.args.qg.keys) :
                  SelectionNames(arena, current, nodes, schema_version, last'.name,
                                 last'.args, k)
                    = IF last'.emitted = <<>> THEN <<NoneStr>>
                      ELSE NamesOfNodes(arena', last'.emitted)
            /\ last'.result = "ok"
                 => CountedNames(NamesOfNodes(arena', last'.emitted),
                                 last'.args.qg, last'.args.has_leaf)]_vars

\* a query with predicates on both relations whose map yields x before t
C20_Witness ==
    /\ QueryDone
    /\ last.args.qg.keys = <<"x", "t">>
    /\ last.args.has_leaf
    /\ NamesOfNodes(arena, last.emitted)
         = <<"t", "x", "q_3a_n0", "q_3a_n1_p0_f0", "q_3a_n1_p0_f1",
             "q_3a_n3_p0_f0", "q_3a_n3_p0_f1", "q_3a_n3_p0_un", "q_3a_n6", "q">>

----------------------------------------------------------------------------
(* Properties of make_join_node.  After such a call last.args holds the join
   predicate (jp), the two nodes and the kind. *)

\* in arena a, node n is the join of kind `kind` of left and right on the two
\* columns of jp, with the columns of left followed by those of right
JoinShape(a, n, args) ==
    /\ a[n].inner.kind = IF args.kind = "Inner" THEN "Join" ELSE "LeftJoin"
    /\ a[n].inner.on_left = <<args.jp.left.column>>
    /\ a[n].inner.on_right = <<args.jp.right.column>>
    /\ Len(a[n].inner.on_left) = Len(a[n].inner.on_right)
    /\ a[n].ancestors = <<args.left_node, args.right_node>>
    /\ a[n].columns = a[args.left_node].columns \o a[args.right_node].columns
    /\ a[n].inner.project = a[n].columns
    /\ Len(a[n].columns) = Len(a[args.left_node].columns)
                           + Len(a[args.right_node].columns)

\* C21: make_join_node fails unless the predicate has operator = or IN and a
\* column on both sides; otherwise it makes a Join (kind Inner) or a LeftJoin
\* (kind Left) with one column in on_left and one in on_right, ancestors
\* [left, right], and as columns and projection the columns of the left node
\* followed by the columns of the right node, duplicates kept.
C21_JoinWellFormed ==
    [][Step("make_join_node")
         => /\ last'.result = "ok"
                 <=> /\ last'.args.jp.operator \in {"Equal", "In"}
                     /\ last'.args.jp.left.kind = "Field"
                     /\ last'.args.jp.right.kind = "Field"
            /\ last'.result = "panic" => arena' = arena
            /\ last'.result = "ok"
                 => /\ Len(arena') = Len(arena) + 1
                    /\ last'.emitted = <<Len(arena')>>
                    /\ JoinShape(arena', Len(arena'), last'.args)]_vars

\* a left join of a table with itself on t.a IN x.a: every column twice
C21_Witness ==
    /\ last.op = "make_join_node"
    /\ last.result = "ok"
    /\ last.args.kind = "Left"
    /\ last.args.jp.operator = "In"
    /\ last.args.left_node = last.args.right_node
    /\ Len(arena[last.emitted[1]].columns) = 4

----------------------------------------------------------------------------
(* Properties of TopK nodes *)

\* the LIMIT clause of a call, empty when it has none
LimitOf(l) ==
    IF l.op = "named_query_to_mir" THEN l.args.sq.limit
    ELSE IF l.op = "compound_query_to_mir" THEN l.args.limit
    ELSE <<>>

\* the TopK nodes among the nodes from..to of arena a
TopKsIn(a, from, to) == {n \in from..to : a[n].inner.kind = "TopK"}

\* C22: every TopK node that named_query_to_mir or compound_query_to_mir
\* makes has offset 0, k equal to the LIMIT of the call and the columns of
\* its parent; a LIMIT with an offset other than 0 is fatal and no TopK node
\* is made for it.
C22_TopKOffset ==
    [][/\ \A n \in TopKsIn(arena', Len(arena) + 1, Len(arena')) :
            /\ LimitOf(last') # <<>>
            /\ arena'[n].inner.offset = 0
            /\ LimitOf(last')[1].offset = 0
            /\ arena'[n].inner.k = LimitOf(last')[1].limit
            /\ Len(arena'[n].ancestors) = 1
            /\ arena'[n].columns = arena'[arena'[n].ancestors[1]].columns
       /\ (calls' = calls + 1 /\ LimitOf(last') # <<>>
           /\ last'.op \in {"named_query_to_mir", "compound_query_to_mir"})
            => /\ LimitOf(last')[1].offset # 0 => last'.result = "panic"
               /\ last'.result = "ok"
                    => Cardinality(TopKsIn(arena', Len(arena) + 1, Len(arena'))) = 1]_vars

\* a TopK of a query with LIMIT 5 and a TopK of a compound query with LIMIT 10
C22_Witness ==
    /\ last.op = "compound_query_to_mir"
    /\ last.result = "ok"
    /\ \E n \in 1..Len(arena) : arena[n].inner.kind = "TopK" /\ arena[n].inner.k = 5
    /\ \E n \in 1..Len(arena) : arena[n].inner.kind = "TopK" /\ arena[n].inner.k = 10

----------------------------------------------------------------------------
(* Properties of to_conditions.  After such a call last.args holds the
   condition (ct), the columns given and the ancestor (n); last.query holds
   the vector returned (filters) and the columns as the call leaves them. *)

\* the greatest column id that node n of arena a gives the columns, plus one
IdsEnd(a, n, columns) ==
    CHOOSE m \in 0..(Len(a[n].columns) + 1) :
        /\ \A i \in 1..Len(columns) : ColumnIdForColumn(a, n, columns[i]) + 1 <= m
        /\ \E i \in 1..Len(columns) : ColumnIdForColumn(a, n, columns[i]) + 1 = m

\* the places of columns named as the left side of ct
SameName(columns, ct) ==
    {i \in 1..Len(columns) : columns[i].name = ct.left.column.name}

Rightmost(places) == CHOOSE i \in places : \A j \in places : j <= i

Longer(x, y) == IF x < y THEN y ELSE x

\* ret is what to_conditions returns for ct, columns and node n of arena a
AlignedConditions(a, ct, columns, n, ret) ==
    /\ Cardinality({i \in 1..Len(ret.filters) : ret.filters[i] # <<>>}) = 1
    /\ SameName(columns, ct) # {}
         => /\ ret.columns = columns
            /\ Len(ret.filters) = Longer(Len(columns), IdsEnd(a, n, columns))
            /\ ret.filters[ColumnIdForColumn(a, n, columns[Rightmost(SameName(columns, ct))])
                           + 1] = <<FilterConditionOf(ct)>>
    /\ SameName(columns, ct) = {}
         => /\ ret.columns = Append(columns, ct.left.column)
            /\ Len(ret.filters) = Longer(Len(columns), IdsEnd(a, n, columns)) + 1
            /\ ret.filters[Len(ret.filters)] = <<FilterConditionOf(ct)>>

\* C23: the vector to_conditions returns has exactly one non-empty slot.  If
\* a column of `columns` has the name of the left side of the condition, the
\* condition is at the column id the ancestor gives the rightmost such column,
\* `columns` is unchanged and the vector is max(|columns|, greatest id + 1)
\* long; otherwise the column is appended to `columns` and the condition is in
\* a new last slot.  The conditions of every Filter node are as many as the
\* columns of the node.
C23_ConditionsAligned ==
    [][/\ (Step("to_conditions") /\ last'.result = "ok")
            => AlignedConditions(arena, last'.args.ct, last'.args.columns,
                                 last'.args.n, last'.query)
       /\ \A f \in 1..Len(arena') :
            arena'[f].inner.kind = "Filter"
              => Len(arena'[f].inner.conditions) = Len(arena'[f].columns)]_vars

\* the condition b = 1 on the column list [b] of a node with the columns a, b:
\* the vector is longer than the list and the condition is in its second slot
C23_Witness ==
    /\ last.op = "to_conditions"
    /\ last.result = "ok"
    /\ last.args.columns = <<tb>>
    /\ last.query.columns = <<tb>>
    /\ Len(last.query.filters) = 2
    /\ last.query.filters[2] # <<>>
    /\ \E f \in 1..Len(arena) : arena[f].inner.kind = "Filter" /\ Len(arena[f].columns) = 3

----------------------------------------------------------------------------
(* Properties of make_function_node.  After such a call last.args holds the
   computed column (func_col), the group-by columns and the parent. *)

\* the node kind and the kind of aggregate that a function asks for
AggregateOf(kind) ==
    IF kind = "Sum" THEN <<"Aggregation", "SUM">>
    ELSE IF kind = "Count" THEN <<"Aggregation", "COUNT">>
    ELSE IF kind = "Max" THEN <<"Extremum", "MAX">>
    ELSE IF kind = "Min" THEN <<"Extremum", "MIN">>
    ELSE IF kind = "GroupConcat" THEN <<"GroupConcat", NoneStr>>
    ELSE <<NoneStr, NoneStr>>

\* in arena a, node n computes the function of func_col over parent, grouped
\* by group_cols
AggregateShape(a, n, func_col, group_cols, parent) ==
    /\ a[n].inner.kind = AggregateOf(func_col.function)[1]
    /\ a[n].inner.kind \in {"Aggregation", "Extremum"}
         => a[n].inner.op = AggregateOf(func_col.function)[2]
    /\ a[n].inner.kind = "GroupConcat"
         => a[n].inner.separator = ","
    /\ a[n].inner.on = tb
    /\ a[n].ancestors = <<parent>>
    /\ Len(a[n].columns) = Len(group_cols) + 1
    /\ SubSeq(a[n].columns, 1, Len(group_cols)) = group_cols
    /\ a[n].columns[Len(a[n].columns)].alias = NoneStr
    /\ a[n].columns[Len(a[n].columns)].name =
         IF func_col.alias # NoneStr THEN func_col.alias ELSE func_col.name
    /\ a[n].columns[Len(a[n].columns)].function = func_col.function

\* C24: for SUM and COUNT make_function_node makes an Aggregation of that
\* kind, for MAX and MIN an Extremum of that kind, for GROUP_CONCAT a
\* GroupConcat with the separator given; COUNT(*) is fatal.  The only ancestor
\* of the node is the parent given and its columns are the group-by columns in
\* order followed by the computed column, whose alias, if any, has become its
\* name.
C24_AggregateEmission ==
    [][Step("make_function_node")
         => /\ last'.args.func_col.function = "CountStar" => last'.result = "panic"
            /\ last'.result = "ok"
                 <=> last'.args.func_col.function
                       \in {"Sum", "Count", "Max", "Min", "GroupConcat"}
            /\ last'.result = "ok"
                 => /\ Len(arena') = Len(arena) + 1
                    /\ last'.emitted = <<Len(arena')>>
                    /\ AggregateShape(arena', Len(arena'), last'.args.func_col,
                                      last'.args.group_cols, last'.args.parent)]_vars

\* MAX(b) AS total grouped by b, a
C24_Witness ==
    /\ last.op = "make_function_node"
    /\ last.result = "ok"
    /\ last.args.func_col.alias = "total"
    /\ last.args.group_cols = <<tb, ta>>
    /\ arena[last.emitted[1]].inner.kind = "Extremum"
    /\ arena[last.emitted[1]].inner.op = "MAX"
    /\ arena[last.emitted[1]].columns[3].name = "total"

----------------------------------------------------------------------------
(* base_schemas against nodes *)

\* no call but named_base_to_mir and upgrade_schema has made a node
OnlyBases == \A n \in 1..Len(arena) : arena[n].inner.kind \in {"Base", "Reuse"}

\* the node registered for (name, v) is a Base with the columns of schema
RegisteredAs(name, v, schema) ==
    /\ <<name, v>> \in DOMAIN nodes
    /\ arena[nodes[<<name, v>>]].inner.kind = "Base"
    /\ arena[nodes[<<name, v>>]].columns = [k \in 1..Len(schema) |-> schema[k].column]

\* a CREATE TABLE that failed on a simple change of the newest schema
AdaptationFailed ==
    /\ last.op = "named_base_to_mir"
    /\ last.result = "panic"
    /\ last.name \in DOMAIN base_schemas
    /\ SimpleChange(NewestSchema(base_schemas, last.name), last.args.fields)
    /\ \A k \in 1..Len(last.args.fields) : last.args.fields[k].column.table = last.name

\* C25: after named_base_to_mir and upgrade_schema calls only, for every
\* (v, schema) recorded in base_schemas[name] the node registered under
\* (name, v) is a Base whose columns are those of schema, and no adaptation
\* fails for a column to remove that the prior node does not have.
C25_SchemasAligned ==
    OnlyBases
        => /\ \A name \in DOMAIN base_schemas :
                \A i \in 1..Len(base_schemas[name]) :
                    RegisteredAs(name, base_schemas[name][i][1], base_schemas[name][i][2])
           /\ ~AdaptationFailed

\* the second half of C25 alone: no adaptation fails
C25_AdaptationNeverFails == OnlyBases => ~AdaptationFailed

----------------------------------------------------------------------------
(* the node a Leaf refers to *)

LeavesIn(a) == {n \in 1..Len(a) : a[n].inner.kind = "Leaf"}

\* the Leaf has one ancestor and its payload names that ancestor
LeafOnAncestor(a, n) ==
    /\ Len(a[n].ancestors) = 1
    /\ a[n].inner.node = a[n].ancestors[1]

\* the Leaf has one ancestor and its payload names the ancestor of that one
LeafOnGrandparent(a, n) ==
    /\ Len(a[n].ancestors) = 1
    /\ Len(a[a[n].ancestors[1]].ancestors) = 1
    /\ a[n].inner.node = a[a[n].ancestors[1]].ancestors[1]
    /\ a[a[n].inner.node].inner.kind = "Reuse"

\* C26: every Leaf made by named_query_to_mir, compound_query_to_mir or
\* add_leaf_below has exactly one ancestor, and the node of its payload is
\* that ancestor.
C26_LeafOnAncestor == \A n \in LeavesIn(arena) : LeafOnAncestor(arena, n)

\* what holds of the Leaves instead: the Leaf of add_leaf_below names the
\* Reuse two nodes below it, every other Leaf its ancestor
C26_LeafByOperation ==
    [][/\ Step("named_query_to_mir") \/ Step("compound_query_to_mir")
            => \A n \in LeavesIn(arena') \ LeavesIn(arena) : LeafOnAncestor(arena', n)
       /\ Step("add_leaf_below") /\ last'.result = "ok"
            => /\ LeavesIn(arena') \ LeavesIn(arena) = {last'.query.leaf}
               /\ LeafOnGrandparent(arena', last'.query.leaf)
               /\ ~LeafOnAncestor(arena', last'.query.leaf)]_vars

----------------------------------------------------------------------------
(* the table of a Base's columns *)

\* every column specification of fields is of table name
OwnedBy(fields, name) == \A k \in 1..Len(fields) : fields[k].column.table = name

\* C27: a Base that named_base_to_mir returns and every schema recorded in
\* base_schemas[name] have columns of table name only, and a CREATE TABLE
\* with a column of another table fails, on the adaptation path too.
C27_BaseColumnsOwned ==
    last.op = "named_base_to_mir" /\ last.args.kind = "CreateTable"
        => /\ last.result = "ok" /\ arena[last.query.leaf].inner.kind = "Base"
                => \A k \in 1..Len(arena[last.query.leaf].columns) :
                       arena[last.query.leaf].columns[k].table = last.name
           /\ last.name \in DOMAIN base_schemas
                => \A i \in 1..Len(base_schemas[last.name]) :
                       OwnedBy(base_schemas[last.name][i][2], last.name)
           /\ ~OwnedBy(last.args.fields, last.name) => last.result = "panic"

\* the same for a table named for the first time: the check of lines 517-521
C27_FreshBaseColumnsOwned ==
    [][Step("named_base_to_mir") /\ last'.args.kind = "CreateTable"
       /\ last'.name \notin DOMAIN base_schemas
       /\ ~OwnedBy(last'.args.fields, last'.name)
            => last'.result = "panic" /\ base_schemas' = base_schemas]_vars

=============================================================================
